---- MODULE Spec2Model ----
(***************************************************************************)
(* A model of etymmap's reduced relation store (etymmap/graph/reduction.py) *)
(* and of the etymology chain interpreter                                   *)
(* (etymmap/extraction/section_extractor.py).                               *)
(*                                                                          *)
(* Nodes are Python objects without __eq__/__hash__, so two nodes are equal *)
(* iff they are the same object; id(node) is an arbitrary injective number  *)
(* fixed for the lifetime of the object (variable id).  Edge data of a      *)
(* store is kept per ordered node pair as the sequence of its entries in    *)
(* insertion order (a DiGraph pair holds at most one entry, a MultiDiGraph  *)
(* pair one entry per key).  An attribute that is None or empty is <<>> for *)
(* text; uncertain is kept by its truth value.                              *)
(***************************************************************************)
EXTENDS Integers, Sequences, FiniteSets, TLC

\* ------------------------------------------------------------------ bounds
\* the nodes and add calls of the general specification
NumNodes == 3
MaxAdds == 3
\* the node objects there are at all
MaxNodes == 4

Node == 1..MaxNodes
Pairs == Node \X Node

\* ------------------------------------------------- relation type ontology
RelationType ==
    {"RELATED", "SIBLING", "COGNATE", "NONCOGNATE", "DOUBLET", "ALTFORM",
     "ORIGIN", "HISTORICAL", "INHERITANCE", "DERIVATION", "ROOT", "BORROWING",
     "LEARNED_BORROWING", "SEMI_LEARNED_BORROWING", "ORTHOGRAPHIC_BORROWING",
     "UNADAPTED_BORROWING", "CALQUE", "PARTIAL_CALQUE", "SEMANTIC_LOAN", "PSM",
     "MORPHOLOGICAL", "AFFIX", "PREFIX", "INFIX", "SUFFIX", "CONFIX",
     "CIRCUMFIX", "COMPOUND", "UNIVERBATION", "BLENDING", "CLIPPING",
     "BACKFORM", "ABBREV", "SHORTENING", "OTHER", "UNKNOWN", "EPONYM", "ONOM"}

\* the hierarchy literal: every inner node with its children
ontology ==
    {<<"RELATED", {"SIBLING", "ORIGIN"}>>,
     <<"SIBLING", {"COGNATE", "NONCOGNATE", "DOUBLET", "ALTFORM"}>>,
     <<"ORIGIN", {"HISTORICAL", "BORROWING", "MORPHOLOGICAL", "OTHER"}>>,
     <<"HISTORICAL", {"INHERITANCE", "DERIVATION", "ROOT"}>>,
     <<"BORROWING", {"LEARNED_BORROWING", "SEMI_LEARNED_BORROWING",
                     "ORTHOGRAPHIC_BORROWING", "UNADAPTED_BORROWING", "CALQUE",
                     "PARTIAL_CALQUE", "SEMANTIC_LOAN", "PSM"}>>,
     <<"MORPHOLOGICAL", {"AFFIX", "COMPOUND", "UNIVERBATION", "BLENDING",
                         "CLIPPING", "BACKFORM", "ABBREV", "SHORTENING"}>>,
     <<"AFFIX", {"PREFIX", "INFIX", "SUFFIX", "CONFIX", "CIRCUMFIX"}>>,
     <<"OTHER", {"UNKNOWN", "EPONYM", "ONOM"}>>}

Parents(t) == {e[1] : e \in {f \in ontology : t \in f[2]}}

\* _map[node] = {node, *ancestors}
RECURSIVE make_is_a_map(_)
make_is_a_map(t) ==
    {t} \cup UNION {make_is_a_map(p) : p \in Parents(t)}

is_a(self, other) == other \in make_is_a_map(self)

directed(self) == is_a(self, "ORIGIN")

\* ------------------------------------------------------------------ state
VARIABLES
    id,                \* id(node): the order of the node objects' addresses
    language,          \* node.language, NoLanguage for a node without one
    language_tree,     \* the configured language tree, NoTree if none
    related,           \* DiGraph, endpoints ordered by id
    sibling,           \* MultiDiGraph keyed by type, endpoints ordered by id
    origin,            \* DiGraph of the directed relations
    origin_cycles_and_parallel_edges,   \* MultiDiGraph keyed by type
    graph,             \* _graph, the MultiDiGraph finalize returns
    finalized,         \* the finalized flag
    budget,            \* the add calls still to come
    added,             \* the relations of the recorded add calls, in order
    last,              \* the last call: its name, arguments and outcome
    chain_resolution,      \* EtymologySectionExtractor.chain_resolution
    only_first_sentence,   \* EtymologySectionExtractor.only_first_sentence
    only_in_from_chain,    \* EtymologySectionExtractor.only_in_from_chain
    last_origin_source,    \* extract: the local of that name, None if unset
    from_chain_check,      \* extract: the local of that name
    first_sentence_check,  \* extract: the local of that name
    section_relations,     \* extract: the relations to yield
    chain,                 \* the elements of the chain extract has read
    ret,               \* SequenceRules.__call__: the sequence the rules work on
    applied,           \* the number of rules applied to ret
    given,             \* the sequence the rules were called with
    entities,          \* Entities._entities: name -> list of entities
    identified,        \* the last identify call: arguments and outcome
    index,             \* the wiktionary index: (term, language) -> etym_count
    single_meanings,   \* Lexicon.single_meanings: term -> stubs
    multi_meanings,    \* Lexicon.multi_meanings: term -> language -> lexemes
    no_entries,        \* Lexicon.no_entries: term -> NoEntryLexemes
    lexicon_call,      \* the last call on the lexicon and its outcome
    resolved,          \* the last _identify_entry_lexeme call and its outcome
    descendants        \* from_list: the list, the items read, sub_ctx

storeVars == <<related, sibling, origin, origin_cycles_and_parallel_edges,
               graph, finalized>>
configVars == <<chain_resolution, only_first_sentence, only_in_from_chain>>
extractVars == <<last_origin_source, from_chain_check, first_sentence_check,
                 section_relations, chain>>
ruleVars == <<ret, applied, given>>
entityVars == <<entities, identified>>
lexiconVars == <<index, single_meanings, multi_meanings, no_entries,
                 lexicon_call>>
resolverVars == <<resolved, descendants>>
envVars == <<id, language, language_tree, configVars, extractVars, ruleVars,
             entityVars, lexiconVars, resolverVars>>
vars == <<id, language, language_tree, related, sibling, origin,
          origin_cycles_and_parallel_edges, graph, finalized, budget, added, last,
          configVars, extractVars, ruleVars, entityVars, lexiconVars,
          resolverVars>>

NoLanguage == "-"
NoTree == {}

\* ------------------------------------------------- networkx graph classes
EmptyGraph == [p \in Pairs |-> <<>>]

\* DiGraph.add_edge(u, v, **attrs): the pair's attribute object takes attrs
DiAddEdge(g, u, v, attrs) == [g EXCEPT ![<<u, v>>] = <<attrs>>]

DiRemoveEdge(g, u, v) == [g EXCEPT ![<<u, v>>] = <<>>]

KeyIndex(entries, key) ==
    LET hits == {i \in 1..Len(entries) : entries[i].key = key}
    IN  IF hits = {} THEN 0 ELSE CHOOSE i \in hits : TRUE

\* MultiDiGraph.add_edge(u, v, key, **attrs): an existing key keeps its place
\* and has its data overwritten, a new key is appended
MultiAddEdge(g, u, v, key, attrs) ==
    LET entries == g[<<u, v>>]
        i == KeyIndex(entries, key)
        e == [key |-> key, attrs |-> attrs]
    IN  IF i = 0
        THEN [g EXCEPT ![<<u, v>>] = Append(entries, e)]
        ELSE [g EXCEPT ![<<u, v>>] = [entries EXCEPT ![i] = e]]

Edges(g) == {p \in Pairs : g[p] # <<>>}

\* RelationAttributes(type, text, uncertain)
RelationAttributes(type, text, uncertain) ==
    [type |-> type, text |-> text, uncertain |-> uncertain]

Relation(src, tgt, attrs) == [src |-> src, tgt |-> tgt, attrs |-> attrs]

\* the fields of a ReducedRelations object
Store ==
    [related |-> related, sibling |-> sibling, origin |-> origin,
     origin_cycles_and_parallel_edges |-> origin_cycles_and_parallel_edges,
     graph |-> graph, finalized |-> finalized]

EmptyStore ==
    [related |-> EmptyGraph, sibling |-> EmptyGraph, origin |-> EmptyGraph,
     origin_cycles_and_parallel_edges |-> EmptyGraph,
     graph |-> EmptyGraph, finalized |-> FALSE]

\* ------------------------------------------------------------ merging
merge_relation_attrs(attrs1, attrs2) ==
    [attrs1 EXCEPT
        !.text = IF attrs1.text # <<>>
                 THEN IF attrs2.text # <<>>
                      THEN attrs1.text \o attrs2.text
                      ELSE attrs1.text
                 ELSE IF attrs2.text # <<>> THEN attrs2.text ELSE attrs1.text,
        !.uncertain = attrs1.uncertain \/ attrs2.uncertain]

\* a merge that never replaces the type of the existing edge
merge_if_possible_keeping_type(update_attrs, existing_attrs) ==
    LET reltype == update_attrs.type
        other_type == existing_attrs.type
    IN  IF is_a(other_type, reltype) \/ is_a(reltype, other_type)
        THEN [merged |-> TRUE,
              attrs |-> merge_relation_attrs(existing_attrs, update_attrs)]
        ELSE [merged |-> FALSE, attrs |-> existing_attrs]

\* a merge that takes place whatever the two types
merge_if_possible_any(update_attrs, existing_attrs) ==
    [merged |-> TRUE,
     attrs |-> [merge_relation_attrs(existing_attrs, update_attrs)
                   EXCEPT !.type = update_attrs.type]]

\* merge_if_possible: [merged, attrs], attrs the existing attrs afterwards
merge_if_possible(update_attrs, existing_attrs) ==
    LET reltype == update_attrs.type
        other_type == existing_attrs.type
    IN  IF is_a(other_type, reltype)
        THEN [merged |-> TRUE,
              attrs |-> merge_relation_attrs(existing_attrs, update_attrs)]
        ELSE IF is_a(reltype, other_type)
        THEN [merged |-> TRUE,
              attrs |-> [merge_relation_attrs(existing_attrs, update_attrs)
                            EXCEPT !.type = update_attrs.type]]
        ELSE [merged |-> FALSE, attrs |-> existing_attrs]

\* ------------------------------------------------------ language tree
\* nx.shortest_path(tree, a, b) succeeds iff both are nodes of the tree and
\* b is reachable from a (a = b included)
TreeNodes(tree) == {e[1] : e \in tree} \cup {e[2] : e \in tree}

RECURSIVE Reach(_, _, _)
Reach(edges, frontier, seen) ==
    LET next == {e[2] : e \in {f \in edges : f[1] \in frontier}} \ seen
    IN  IF next = {} THEN seen ELSE Reach(edges, next, seen \cup next)

has_path(edges, a, b) == b \in Reach(edges, {a}, {a})

shortest_path_exists(tree, a, b) ==
    /\ a \in TreeNodes(tree)
    /\ b \in TreeNodes(tree)
    /\ has_path(tree, a, b)

\* the order of the relation kept whatever the languages
order_hist_accurate_as_given(src, tgt, type_) == <<src, tgt>>

\* order_hist_accurate: <<src, tgt>> as it is stored
order_hist_accurate(src, tgt, type_) ==
    IF /\ is_a(type_, "HISTORICAL")
       /\ language[src] # NoLanguage
       /\ language[tgt] # NoLanguage
       /\ shortest_path_exists(language_tree, language[tgt], language[src])
    THEN <<tgt, src>>
    ELSE <<src, tgt>>

\* the endpoints in the order they were given
ById_as_given(src, tgt) == <<src, tgt>>

\* ------------------------------------------------------------------ add
ById(src, tgt) == IF id[src] < id[tgt] THEN <<src, tgt>> ELSE <<tgt, src>>

\* the index of the first entry of more_parallel_edges the relation merges
\* with, 0 if there is none
FirstMergeable(relation_attrs, more_parallel_edges) ==
    LET hits == {i \in 1..Len(more_parallel_edges) :
                    merge_if_possible(relation_attrs,
                                      more_parallel_edges[i].attrs).merged}
    IN  IF hits = {} THEN 0
        ELSE CHOOSE i \in hits : \A j \in hits : i <= j

\* _add_directed that stores in origin without looking at the edge tgt -> src
add_directed_no_antiparallel(rs, relation) ==
    LET st == IF language_tree # NoTree
              THEN order_hist_accurate(relation.src, relation.tgt,
                                       relation.attrs.type)
              ELSE <<relation.src, relation.tgt>>
    IN  IF rs.origin[<<st[1], st[2]>>] # <<>>
        THEN rs
        ELSE [rs EXCEPT !.origin = DiAddEdge(@, st[1], st[2], relation.attrs)]

add_directed(rs, relation) ==
    LET relation_attrs == relation.attrs
        reltype == relation_attrs.type
        st == IF language_tree # NoTree
              THEN order_hist_accurate(relation.src, relation.tgt, reltype)
              ELSE <<relation.src, relation.tgt>>
        src == st[1]
        tgt == st[2]
        undirected == ById(src, tgt)
        rel1 == DiRemoveEdge(rs.related, undirected[1], undirected[2])
        parallel_edge_data == rs.origin[<<src, tgt>>]
        anti_parallel_edge_data == rs.origin[<<tgt, src>>]
        more_parallel_edges == rs.origin_cycles_and_parallel_edges[<<src, tgt>>]
        rs1 == [rs EXCEPT !.related = rel1]
        shelved ==
            [rs1 EXCEPT !.origin_cycles_and_parallel_edges =
                MultiAddEdge(@, src, tgt, reltype, relation_attrs)]
    IN  IF parallel_edge_data # <<>>
        THEN LET m == merge_if_possible(relation_attrs, parallel_edge_data[1])
                 i == FirstMergeable(relation_attrs, more_parallel_edges)
             IN  IF m.merged
                 THEN [rs1 EXCEPT !.origin[<<src, tgt>>] = <<m.attrs>>]
                 ELSE IF i # 0
                 THEN [rs1 EXCEPT
                        !.origin_cycles_and_parallel_edges[<<src, tgt>>][i].attrs =
                            merge_if_possible(relation_attrs,
                                              more_parallel_edges[i].attrs).attrs]
                 ELSE shelved
        ELSE IF anti_parallel_edge_data # <<>>
        THEN shelved
        ELSE [rs1 EXCEPT !.origin = DiAddEdge(@, src, tgt, relation_attrs)]

add_sibling(rs, relation) ==
    LET relation_attrs == relation.attrs
        reltype == relation_attrs.type
        st == ById(relation.src, relation.tgt)
        src == st[1]
        tgt == st[2]
        rel1 == DiRemoveEdge(rs.related, src, tgt)
        entries == rs.sibling[<<src, tgt>>]
        i == KeyIndex(entries, reltype)
    IN  IF i # 0
        THEN [rs EXCEPT !.related = rel1,
                        !.sibling[<<src, tgt>>][i].attrs =
                            merge_relation_attrs(@, relation_attrs)]
        ELSE [rs EXCEPT !.related = rel1,
                        !.sibling = MultiAddEdge(@, src, tgt, reltype,
                                                 relation_attrs)]

\* _add_related that does not look for an origin or sibling relation
add_related_unchecked(rs, relation) ==
    LET st == ById(relation.src, relation.tgt)
    IN  IF rs.related[<<st[1], st[2]>>] # <<>>
        THEN [rs EXCEPT !.related[<<st[1], st[2]>>][1] =
                            merge_relation_attrs(@, relation.attrs)]
        ELSE [rs EXCEPT !.related = DiAddEdge(@, st[1], st[2], relation.attrs)]

add_related(rs, relation) ==
    LET relation_attrs == relation.attrs
        st == ById(relation.src, relation.tgt)
        src == st[1]
        tgt == st[2]
    IN  IF rs.origin[<<src, tgt>>] # <<>>
        THEN [rs EXCEPT !.origin[<<src, tgt>>][1] =
                            merge_relation_attrs(@, relation_attrs)]
        ELSE IF rs.origin[<<tgt, src>>] # <<>>
        THEN [rs EXCEPT !.origin[<<tgt, src>>][1] =
                            merge_relation_attrs(@, relation_attrs)]
        ELSE IF rs.sibling[<<src, tgt>>] # <<>>
        THEN [rs EXCEPT !.sibling[<<src, tgt>>][1].attrs =
                            merge_relation_attrs(@, relation_attrs)]
        ELSE IF rs.related[<<src, tgt>>] # <<>>
        THEN [rs EXCEPT !.related[<<src, tgt>>][1] =
                            merge_relation_attrs(@, relation_attrs)]
        ELSE [rs EXCEPT !.related = DiAddEdge(@, src, tgt, relation_attrs)]

\* add without the test for src = tgt
add_keeping_selfloops(rs, relation) ==
    LET reltype == relation.attrs.type
    IN  IF rs.finalized
        THEN [store |-> rs, result |-> "ValueError"]
        ELSE IF directed(reltype)
        THEN [store |-> add_directed(rs, relation), result |-> "ok"]
        ELSE IF is_a(reltype, "SIBLING")
        THEN [store |-> add_sibling(rs, relation), result |-> "ok"]
        ELSE [store |-> add_related(rs, relation), result |-> "ok"]

\* add: [store, result]; result is "ValueError" when the call raises
add(rs, relation) ==
    LET reltype == relation.attrs.type
    IN  IF rs.finalized
        THEN [store |-> rs, result |-> "ValueError"]
        ELSE IF relation.src = relation.tgt
        THEN [store |-> rs, result |-> "SELFLOOP"]
        ELSE IF directed(reltype)
        THEN [store |-> add_directed(rs, relation), result |-> "ok"]
        ELSE IF is_a(reltype, "SIBLING")
        THEN [store |-> add_sibling(rs, relation), result |-> "ok"]
        ELSE [store |-> add_related(rs, relation), result |-> "ok"]

\* ------------------------------------------------------- cycle removal
Last(seq) == seq[Len(seq)]
Front(seq) == SubSeq(seq, 1, Len(seq) - 1)
Range(seq) == {seq[i] : i \in 1..Len(seq)}

\* the elements of a set as a sequence, ascending by the injective rank ord
RECURSIVE SortBy(_, _)
SortBy(S, ord) ==
    IF S = {} THEN <<>>
    ELSE LET x == CHOOSE y \in S : \A z \in S : ord[y] <= ord[z]
         IN  <<x>> \o SortBy(S \ {x}, ord)

Successors(E, S, n) == {m \in S : <<n, m>> \in E}

\* the simple paths from s that pass only through nodes after s, by length
RECURSIVE PathsFrom(_, _, _)
PathsFrom(E, s, paths) ==
    LET longer == UNION {{Append(p, v) :
                              v \in {w \in Node : w > s /\ <<Last(p), w>> \in E}} :
                          p \in paths}
        simple == {p \in longer : \A i \in 1..(Len(p) - 1) : p[i] # Last(p)}
    IN  IF simple = {} THEN paths ELSE paths \cup PathsFrom(E, s, simple)

\* networkx simple_cycles: every elementary circuit once, as its node list
simple_cycles(E) ==
    UNION {{p \in PathsFrom(E, s, {<<s>>}) : <<Last(p), s>> \in E} : s \in Node}

\* the edge removed from origin and kept nowhere
ShelveEdge_dropping(rs, src, tgt) ==
    IF rs.origin[<<src, tgt>>] = <<>>
    THEN rs
    ELSE [rs EXCEPT !.origin = DiRemoveEdge(@, src, tgt)]

\* move the edge src -> tgt of origin to the overflow store; an edge that
\* is no longer in origin raises KeyError and is skipped
ShelveEdge(rs, src, tgt) ==
    IF rs.origin[<<src, tgt>>] = <<>>
    THEN rs
    ELSE LET relation_attrs == rs.origin[<<src, tgt>>][1]
         IN  [rs EXCEPT
                !.origin_cycles_and_parallel_edges =
                    MultiAddEdge(@, src, tgt, relation_attrs.type, relation_attrs),
                !.origin = DiRemoveEdge(@, src, tgt)]

\* for src, tgt in zip(cycle, cycle[1:] + cycle[:1]), from position i on
RECURSIVE shelf_cycle(_, _, _)
shelf_cycle(rs, path, i) ==
    IF i > Len(path) THEN rs
    ELSE shelf_cycle(ShelveEdge(rs, path[i], path[(i % Len(path)) + 1]),
                     path, i + 1)

RECURSIVE ShelveAll(_, _)
ShelveAll(rs, cycles) ==
    IF cycles = {} THEN rs
    ELSE LET cycle == CHOOSE c \in cycles : TRUE
         IN  ShelveAll(shelf_cycle(rs, cycle, 1), cycles \ {cycle})

\* only the circuits of at most three nodes are collected and shelved
remove_cycles_up_to_three(rs) ==
    ShelveAll(rs, {c \in simple_cycles(Edges(rs.origin)) : Len(c) <= 3})

remove_cycles(rs) == ShelveAll(rs, simple_cycles(Edges(rs.origin)))

\* networkx strongly_connected_components of the subgraph induced by S
strongly_connected_components(E, S) ==
    LET sub == {e \in E : e[1] \in S /\ e[2] \in S}
    IN  {{m \in S : has_path(sub, n, m) /\ has_path(sub, m, n)} : n \in S}

\* _unblock(thisnode, blocked, B): [blocked, B] afterwards
RECURSIVE unblock(_, _, _)
unblock(stack, blocked, B) ==
    IF stack = {} THEN [blocked |-> blocked, B |-> B]
    ELSE LET node == CHOOSE n \in stack : TRUE
         IN  IF node \in blocked
             THEN unblock((stack \ {node}) \cup B[node], blocked \ {node},
                          [B EXCEPT ![node] = {}])
             ELSE unblock(stack \ {node}, blocked, B)

\* the "circuit" routine for one start node: the inner while loop, run on
\* the state c = [rs, stack, path, blocked, closed, B]
RECURSIVE circuit(_, _, _, _, _)
circuit(c, E, scc, startnode, ord) ==
    IF c.stack = <<>> THEN c
    ELSE
    LET top == Last(c.stack)
        thisnode == top.node
        has_nbrs == top.nbrs # <<>>
        nextnode == Last(top.nbrs)
        nbrs == IF has_nbrs THEN Front(top.nbrs) ELSE top.nbrs
        popped == [c EXCEPT !.stack[Len(c.stack)].nbrs = nbrs]
        found == has_nbrs /\ nextnode = startnode
        descend == has_nbrs /\ nextnode # startnode /\ nextnode \notin c.blocked
        c1 == IF found
              THEN [popped EXCEPT !.rs = shelf_cycle(@, c.path, 1),
                                  !.closed = @ \cup Range(c.path)]
              ELSE popped
        ub == unblock({thisnode}, c1.blocked, c1.B)
        c2 == IF thisnode \in c1.closed
              THEN [c1 EXCEPT !.blocked = ub.blocked, !.B = ub.B]
              ELSE [c1 EXCEPT !.B =
                      [n \in Node |->
                          IF n \in Successors(E, scc, thisnode)
                          THEN c1.B[n] \cup {thisnode} ELSE c1.B[n]]]
    IN  IF descend
        THEN circuit([popped EXCEPT
                        !.path = Append(@, nextnode),
                        !.stack = Append(@,
                            [node |-> nextnode,
                             nbrs |-> SortBy(Successors(E, scc, nextnode), ord)]),
                        !.closed = @ \ {nextnode},
                        !.blocked = @ \cup {nextnode}],
                     E, scc, startnode, ord)
        ELSE IF nbrs = <<>>
        THEN circuit([c2 EXCEPT !.stack = Front(@), !.path = Front(@)],
                     E, scc, startnode, ord)
        ELSE circuit(c1, E, scc, startnode, ord)

\* the outer while loop over the list sccs of components still to search
RECURSIVE remove_in_sccs(_, _, _, _)
remove_in_sccs(rs, E, sccs, ord) ==
    IF sccs = <<>> THEN rs
    ELSE
    LET scc == Last(sccs)
        startnode == CHOOSE n \in scc : \A m \in scc : ord[n] >= ord[m]
        c == circuit([rs |-> rs,
                      stack |-> <<[node |-> startnode,
                                   nbrs |-> SortBy(Successors(E, scc, startnode),
                                                   ord)]>>,
                      path |-> <<startnode>>,
                      blocked |-> {startnode},
                      closed |-> {},
                      B |-> [n \in Node |-> {}]],
                     E, scc, startnode, ord)
        H == scc \ {startnode}
        more == {x \in strongly_connected_components(E, H) : Cardinality(x) > 2}
    IN  remove_in_sccs(c.rs, E,
                       Front(sccs) \o SortBy(more, [x \in more |->
                           ord[CHOOSE n \in x : \A m \in x : ord[n] >= ord[m]]]),
                       ord)

\* the search started only in components of more than three nodes
inplace_remove_cycles_above_three(rs, ord) ==
    LET E == Edges(rs.origin)
        subG == {e[1] : e \in E} \cup {e[2] : e \in E}
        found == {x \in strongly_connected_components(E, subG) :
                     Cardinality(x) > 3}
        sccs == SortBy(found, [x \in found |->
                    ord[CHOOSE n \in x : \A m \in x : ord[n] >= ord[m]]])
    IN  remove_in_sccs(rs, E, sccs, ord)

\* inplace_remove_cycles; ord is the iteration order of the sets and
\* adjacency views involved
inplace_remove_cycles(rs, ord) ==
    LET E == Edges(rs.origin)
        subG == {e[1] : e \in E} \cup {e[2] : e \in E}
        found == {x \in strongly_connected_components(E, subG) :
                     Cardinality(x) > 2}
        sccs == SortBy(found, [x \in found |->
                    ord[CHOOSE n \in x : \A m \in x : ord[n] >= ord[m]]])
    IN  remove_in_sccs(rs, E, sccs, ord)

\* ------------------------------------------------ transitive reduction
is_directed_acyclic_graph(E) ==
    \A e \in E : ~has_path(E, e[2], e[1])

\* a reduction that keeps every edge
transitive_reduction_keeping(E) == E

\* networkx transitive_reduction of a DAG: the edges u -> v with no other
\* successor of u from which v is reachable
transitive_reduction(E) ==
    {e \in E : ~\E f \in E : /\ f[1] = e[1]
                             /\ f[2] # e[2]
                             /\ has_path(E, f[2], e[2])}

RECURSIVE RemoveEdges(_, _)
RemoveEdges(g, removed) ==
    IF removed = {} THEN g
    ELSE LET e == CHOOSE x \in removed : TRUE
         IN  RemoveEdges(DiRemoveEdge(g, e[1], e[2]), removed \ {e})

\* the reduction of origin once the cycles are removed: [store, result, dag];
\* dag holds the edges of origin as transitive_reduction receives them,
\* result is "NetworkXError" when networkx refuses them as not acyclic
reduce_origin(rs1) ==
    LET E == Edges(rs1.origin)
        removed == E \ transitive_reduction(E)
    IN  IF ~is_directed_acyclic_graph(E)
        THEN [store |-> rs1, result |-> "NetworkXError", dag |-> E]
        ELSE [store |-> [rs1 EXCEPT !.origin = RemoveEdges(@, removed)],
              result |-> "ok", dag |-> E]

\* transitive_reduce_directed: [store, result, dag]
transitive_reduce_directed(rs, rm_cycles_in_place, ord) ==
    reduce_origin(IF rm_cycles_in_place
                  THEN inplace_remove_cycles(rs, ord)
                  ELSE remove_cycles(rs))

\* ------------------------------------------------- unspecific reduction
Undirected(E) == E \cup {<<e[2], e[1]>> : e \in E}

\* u and v lie in one weakly connected component of the graph with edges E
SameComponent(E, u, v) == has_path(Undirected(E), u, v)

reduce_unspecific(rs) ==
    LET intra_component_edges ==
            {e \in Edges(rs.related) :
                \/ SameComponent(Edges(rs.origin), e[1], e[2])
                \/ SameComponent(Edges(rs.sibling), e[1], e[2])}
    IN  [rs EXCEPT !.related = RemoveEdges(@, intra_component_edges)]

\* ------------------------------------------------------------- finalize
Keyed(entries) ==
    [i \in 1..Len(entries) |-> [key |-> entries[i].type, attrs |-> entries[i]]]

\* add_edges_from for the entries of one node pair, in order
RECURSIVE AddEntries(_, _, _)
AddEntries(held, entries, i) ==
    IF i > Len(entries) THEN held
    ELSE LET k == KeyIndex(held, entries[i].key)
         IN  AddEntries(IF k = 0 THEN Append(held, entries[i])
                        ELSE [held EXCEPT ![k] = entries[i]],
                        entries, i + 1)

\* the four stores merged into a graph that starts empty
merge_graphs_afresh(rs) ==
    [rs EXCEPT
        !.graph = [p \in Pairs |->
                      AddEntries(<<>>,
                                 Keyed(rs.related[p]) \o Keyed(rs.origin[p])
                                 \o rs.sibling[p]
                                 \o rs.origin_cycles_and_parallel_edges[p], 1)],
        !.related = EmptyGraph,
        !.origin = EmptyGraph,
        !.sibling = EmptyGraph,
        !.origin_cycles_and_parallel_edges = EmptyGraph]

\* the four stores merged into _graph and cleared
merge_graphs(rs) ==
    [rs EXCEPT
        !.graph = [p \in Pairs |->
                      AddEntries(rs.graph[p],
                                 Keyed(rs.related[p]) \o Keyed(rs.origin[p])
                                 \o rs.sibling[p]
                                 \o rs.origin_cycles_and_parallel_edges[p], 1)],
        !.related = EmptyGraph,
        !.origin = EmptyGraph,
        !.sibling = EmptyGraph,
        !.origin_cycles_and_parallel_edges = EmptyGraph]

\* finalize after the transitive reduction with outcome tr
finalize_reduced(tr, do_reduce_unspecific) ==
    LET rs1 == tr.store
        rs2 == IF do_reduce_unspecific THEN reduce_unspecific(rs1) ELSE rs1
        specific == IF do_reduce_unspecific
                    THEN Edges(rs1.origin) \cup Edges(rs1.sibling)
                    ELSE {}
    IN  IF tr.result # "ok"
        THEN [store |-> rs1, result |-> tr.result, dag |-> tr.dag,
              specific |-> {}]
        ELSE [store |-> merge_graphs(rs2), result |-> "ok", dag |-> tr.dag,
              specific |-> specific]

\* finalize: [store, result, dag, specific]; specific holds the edges of
\* origin and of sibling as reduce_unspecific finds them
finalize(rs, transitive_reduce, do_reduce_unspecific, rm_cycles_inplace, ord) ==
    IF rs.finalized
    THEN [store |-> rs, result |-> "ok", dag |-> {}, specific |-> {}]
    ELSE finalize_reduced(
             IF transitive_reduce
             THEN transitive_reduce_directed(rs, rm_cycles_inplace, ord)
             ELSE [store |-> rs, result |-> "ok", dag |-> {}],
             do_reduce_unspecific)

\* ------------------------------------------------------------- actions
Min(a, b) == IF a < b THEN a ELSE b

\* the injective ranks of the nodes of S: the orders a set or an adjacency
\* view may be iterated in
OrdersOf(S) ==
    {f \in [Node -> 0..Cardinality(S)] :
        /\ \A n \in Node : (f[n] = 0) <=> (n \notin S)
        /\ \A a, b \in S : a # b => f[a] # f[b]}

\* the nodes whose iteration order inplace_remove_cycles depends on
Searched(rs) ==
    LET E == Edges(rs.origin)
    IN  UNION {x \in strongly_connected_components(
                         E, {e[1] : e \in E} \cup {e[2] : e \in E}) :
                   Cardinality(x) > 2}

SetStore(rs) ==
    /\ related' = rs.related
    /\ sibling' = rs.sibling
    /\ origin' = rs.origin
    /\ origin_cycles_and_parallel_edges' = rs.origin_cycles_and_parallel_edges
    /\ graph' = rs.graph
    /\ finalized' = rs.finalized

\* again: the call is a finalize that follows a finalize that returned
NoCall == [op |-> "init", result |-> "ok", relation |-> <<>>, flags |-> <<>>,
           dag |-> {}, specific |-> {}, again |-> FALSE]

Call(op, result) == [NoCall EXCEPT !.op = op, !.result = result]

\* add(relation); record says whether last keeps the relation
AddCall(relation, record) ==
    /\ budget > 0
    /\ budget' = budget - 1
    /\ \E r \in {add(Store, relation)} :
           /\ SetStore(r.store)
           /\ last' = [Call("add", r.result) EXCEPT
                         !.relation = IF record THEN <<relation>> ELSE <<>>]
    /\ added' = IF record THEN Append(added, relation) ELSE added
    /\ UNCHANGED envVars

Add(relation) == AddCall(relation, FALSE)

AddRecorded(relation) == AddCall(relation, TRUE)

\* The calls that reduce the stores end the extraction: no add is explored
\* after them, except the late adds after a finalize.
RemoveCycles ==
    /\ \E rs \in {remove_cycles(Store)} : SetStore(rs)
    /\ last' = Call("remove_cycles", "ok")
    /\ budget' = 0
    /\ UNCHANGED <<envVars, added>>

InplaceRemoveCycles ==
    \E ord \in OrdersOf(Searched(Store)) :
        /\ \E rs \in {inplace_remove_cycles(Store, ord)} : SetStore(rs)
        /\ last' = Call("inplace_remove_cycles", "ok")
        /\ budget' = 0
        /\ UNCHANGED <<envVars, added>>

TransitiveReduceDirected(rm_cycles_in_place) ==
    \E ord \in IF rm_cycles_in_place THEN OrdersOf(Searched(Store))
               ELSE OrdersOf({}) :
        \E r \in {transitive_reduce_directed(Store, rm_cycles_in_place, ord)} :
            /\ SetStore(r.store)
            /\ last' = [Call("transitive_reduce_directed", r.result)
                          EXCEPT !.dag = r.dag,
                                 !.flags = <<rm_cycles_in_place>>]
            /\ budget' = 0
            /\ UNCHANGED <<envVars, added>>

\* finalize(tr, ru, inplace); of the add calls still to come, late are kept
FinalizeCall(tr, ru, inplace, late) ==
    \E ord \in IF tr /\ inplace THEN OrdersOf(Searched(Store))
               ELSE OrdersOf({}) :
        \E r \in {finalize(Store, tr, ru, inplace, ord)} :
            /\ SetStore(r.store)
            /\ last' = [Call("finalize", r.result)
                          EXCEPT !.dag = r.dag, !.specific = r.specific,
                                 !.flags = <<tr, ru, inplace>>,
                                 !.again = (last.op = "finalize"
                                            /\ last.result = "ok")]
            /\ budget' = Min(budget, late)
            /\ UNCHANGED <<envVars, added>>

Finalize(tr, ru, inplace) == FinalizeCall(tr, ru, inplace, 0)

\* rm_cycles_inplace is read only when transitive_reduce is set
FinalizeFlags ==
    {f \in BOOLEAN \X BOOLEAN \X BOOLEAN : f[1] \/ f[3]}

\* ------------------------------------------- the relation store at large
Types == {"RELATED", "COGNATE", "BORROWING", "EPONYM"}

\* the attributes the extractors build: a type and nothing else
Plain(type) == RelationAttributes(type, <<>>, FALSE)

RelationInputs ==
    {Relation(s, t, Plain(ty)) :
        s \in 1..NumNodes, t \in 1..NumNodes, ty \in Types}

InitStore ==
    /\ related = EmptyGraph
    /\ sibling = EmptyGraph
    /\ origin = EmptyGraph
    /\ origin_cycles_and_parallel_edges = EmptyGraph
    /\ graph = EmptyGraph
    /\ finalized = FALSE
    /\ added = <<>>
    /\ last = NoCall

\* no node, no value: Python's None
None == 0

\* the names entities are identified by, and the terms and languages of
\* the lexicon
Names == {"test1", "test2"}
Terms == {"cat", "dog"}
Languages == {"en", "enm"}

\* no sequence given to the rules
NoRules == ret = <<>> /\ applied = 0 /\ given = <<>>

\* Entity(name, occ, nat, born, died, wplink); occ is the sequence of the
\* occupations its string joins with "; ", <<>> for None
Entity(name, occ, nat, born, died, wplink) ==
    [name |-> name, occ |-> occ, nat |-> nat, born |-> born, died |-> died,
     wplink |-> wplink]

\* template_data that is None
NoData == Entity("", <<>>, None, None, None, None)

NoIdentify == [name |-> "", template_data |-> NoData, returned |-> 0,
               merged |-> FALSE, calls |-> 0]

\* Entities(): no entity stored
NoEntities ==
    /\ entities = [name \in Names |-> <<>>]
    /\ identified = NoIdentify

\* a (term, language) the index does not hold, a missing key or slot
NotIndexed == -1
Missing == -1

NoLexiconCall == [op |-> "init", term |-> "", language |-> "",
                  etym_count |-> 0, result |-> "ok", calls |-> 0]

\* Lexicon(): three empty dicts
NoLexicon ==
    /\ index = [tl \in Terms \X Languages |-> NotIndexed]
    /\ single_meanings = [term \in Terms |-> <<>>]
    /\ multi_meanings = [term \in Terms |->
                            [present |-> FALSE,
                             by_language |-> [l \in Languages |-> Missing]]]
    /\ no_entries = [term \in Terms |-> <<>>]
    /\ lexicon_call = NoLexiconCall

\* template_data of a reference as _identify_entry_lexeme reads it: the
\* parameters id, pos, t and q, "" for one that is missing
Reference(id_, pos, t, q) == [id |-> id_, pos |-> pos, t |-> t, q |-> q]

\* no _identify_entry_lexeme call yet; returned is the position of the
\* lexeme in homonyms, 0 for None
NoResolved == [homonyms |-> <<>>, template_data |-> Reference("", "", "", ""),
               returned |-> 0, called |-> FALSE]

\* no list read by from_list
NoDescendants == [items |-> <<>>, sub_ctx |-> None, own |-> <<>>,
                  relations |-> <<>>]

NoResolution ==
    /\ resolved = NoResolved
    /\ descendants = NoDescendants

\* an extractor with its default flags that has read nothing, and no rules,
\* entities, lexicon or node resolver at work
NoExtraction ==
    /\ NoRules
    /\ NoEntities
    /\ NoLexicon
    /\ NoResolution
    /\ chain_resolution = TRUE
    /\ only_first_sentence = TRUE
    /\ only_in_from_chain = TRUE
    /\ last_origin_source = None
    /\ from_chain_check = FALSE
    /\ first_sentence_check = TRUE
    /\ section_relations = <<>>
    /\ chain = <<>>

Ascending == [n \in Node |-> n]
Descending == [n \in Node |-> MaxNodes + 1 - n]

Init ==
    /\ id \in {Ascending, Descending}
    /\ language = [n \in Node |-> NoLanguage]
    /\ language_tree = NoTree
    /\ budget = MaxAdds
    /\ InitStore
    /\ NoExtraction

Next ==
    \/ \E relation \in RelationInputs : Add(relation)
    \/ \E f \in FinalizeFlags : Finalize(f[1], f[2], f[3])

Spec == Init /\ [][Next]_vars

\* ------------------------------------ cycle removal and reduction of origin
CycleNodes == 4
MaxCycleAdds == 4

CycleInputs ==
    {Relation(p[1], p[2], Plain("COMPOUND")) :
        p \in {q \in (1..CycleNodes) \X (1..CycleNodes) : q[1] # q[2]}}

InitCycles ==
    /\ id = Ascending
    /\ language = [n \in Node |-> NoLanguage]
    /\ language_tree = NoTree
    /\ budget = MaxCycleAdds
    /\ InitStore
    /\ NoExtraction

NextCycles ==
    \/ \E relation \in CycleInputs : Add(relation)
    \/ RemoveCycles
    \/ InplaceRemoveCycles
    \/ \E rm_cycles_in_place \in BOOLEAN :
          TransitiveReduceDirected(rm_cycles_in_place)
    \/ \E ru \in BOOLEAN, inplace \in BOOLEAN : Finalize(TRUE, ru, inplace)

SpecCycles == InitCycles /\ [][NextCycles]_vars

\* --------------------------------------------- two nodes, recorded adds
MaxPairAdds == 3
MaxLateAdds == 1

PairTypes ==
    {"RELATED", "COGNATE", "BORROWING", "LEARNED_BORROWING", "EPONYM"}

\* every type in both directions, and two relations with text and uncertain
PairInputs ==
    {Relation(p[1], p[2], Plain(ty)) :
        p \in {<<1, 2>>, <<2, 1>>}, ty \in PairTypes}
    \cup {Relation(1, 2, RelationAttributes(ty, <<"t">>, TRUE)) :
            ty \in {"RELATED", "BORROWING"}}

InitPair ==
    /\ id \in {Ascending, Descending}
    /\ language = [n \in Node |-> NoLanguage]
    /\ language_tree = NoTree
    /\ budget = MaxPairAdds
    /\ InitStore
    /\ NoExtraction

NextPair ==
    \/ \E relation \in PairInputs : AddRecorded(relation)
    \/ \E f \in FinalizeFlags : Finalize(f[1], f[2], f[3])

SpecPair == InitPair /\ [][NextPair]_vars

\* the same with add calls after finalize
NextLate ==
    \/ \E relation \in PairInputs : AddRecorded(relation)
    \/ \E f \in FinalizeFlags : FinalizeCall(f[1], f[2], f[3], MaxLateAdds)

SpecLate == InitPair /\ [][NextLate]_vars

\* ------------------------------------------- two nodes and a language tree
MaxLangAdds == 3

\* ang < enm < en, and sco beside them
LanguageTree == {<<"ang", "enm">>, <<"enm", "en">>, <<"ang", "sco">>}

\* the languages of the two nodes; a node that is no lexeme has none
NodeLanguages == {"ang", "en", "sco", NoLanguage}

LangTypes == {"ORIGIN", "INHERITANCE", "BORROWING"}

LangInputs ==
    {Relation(p[1], p[2], Plain(ty)) :
        p \in {<<1, 2>>, <<2, 1>>}, ty \in LangTypes}

InitLang ==
    /\ id = Ascending
    /\ \E l1, l2 \in NodeLanguages :
          language = [n \in Node |-> IF n = 1 THEN l1
                                     ELSE IF n = 2 THEN l2 ELSE NoLanguage]
    /\ language_tree = LanguageTree
    /\ budget = MaxLangAdds
    /\ InitStore
    /\ NoExtraction

NextLang ==
    \/ \E relation \in LangInputs : AddRecorded(relation)
    \/ Finalize(TRUE, TRUE, TRUE)

SpecLang == InitLang /\ [][NextLang]_vars

\* two nodes with or without a language tree, self-loops among the adds
MaxTreeAdds == 3

TreeInputs ==
    LangInputs
    \cup {Relation(n, n, Plain("ORIGIN")) : n \in {1, 2}}
    \cup {Relation(1, 2, Plain("RELATED"))}

InitTree ==
    /\ id \in {Ascending, Descending}
    /\ \E l1, l2 \in NodeLanguages :
          language = [n \in Node |-> IF n = 1 THEN l1
                                     ELSE IF n = 2 THEN l2 ELSE NoLanguage]
    /\ language_tree \in {NoTree, LanguageTree}
    /\ budget = MaxTreeAdds
    /\ InitStore
    /\ NoExtraction

NextTree ==
    \/ \E relation \in TreeInputs : AddRecorded(relation)
    \/ Finalize(TRUE, TRUE, TRUE)

SpecTree == InitTree /\ [][NextTree]_vars

\* ------------------------------------------ the etymology section extractor
MaxChain == 4

\* the context lexeme, two lexemes a normalization may resolve to, and the
\* node that is no lexeme
ctx_lexeme == 1
Etymons == {2, 3}
Phantom == MaxNodes

IsLexemeBase(n) == n # None /\ n # Phantom

\* an element of the chain the rules return; link_target holds the nodes
\* the node resolver gives for the targets of a normalization, uncertain
\* is relation["uncertain"] of a normalization
Element(kind, link_target, no_target, type) ==
    [kind |-> kind, link_target |-> link_target, no_target |-> no_target,
     type |-> type, uncertain |-> FALSE]

From == Element("From", <<>>, FALSE, "")
Punct == Element("Punct", <<>>, FALSE, ".")
LinkNormalization(link_target, type) ==
    Element("LinkNormalization", link_target, FALSE, type)

NoneRemoved(seq) == SelectSeq(seq, LAMBDA n : n # None)

\* relate_to_context_lexeme for a LinkNormalization
relate_to_context_lexeme(target_obj, context, ctx_lexeme_source) ==
    LET targets == IF target_obj.no_target THEN <<Phantom>>
                   ELSE NoneRemoved(target_obj.link_target)
    IN  [i \in 1..Len(targets) |->
            IF ctx_lexeme_source
            THEN Relation(context, targets[i], Plain(target_obj.type))
            ELSE Relation(targets[i], context, Plain(target_obj.type))]

Locals ==
    [last_origin_source |-> last_origin_source,
     from_chain_check |-> from_chain_check,
     first_sentence_check |-> first_sentence_check,
     section_relations |-> section_relations]

\* one pass of the loop of extract whose normalizations are all related to
\* the context lexeme
extract_step_to_context(x, e) ==
    IF e.kind = "LinkNormalization"
    THEN [x EXCEPT !.section_relations =
             @ \o relate_to_context_lexeme(e, ctx_lexeme, FALSE)]
    ELSE x

\* one pass of the loop of extract, for the element e of the chain
extract_step(x, e) ==
    IF e.kind = "LinkNormalization"
    THEN LET relations ==
                 IF /\ chain_resolution
                    /\ x.last_origin_source # None
                    /\ x.from_chain_check
                    /\ x.first_sentence_check
                 THEN relate_to_context_lexeme(e, x.last_origin_source, FALSE)
                 ELSE relate_to_context_lexeme(e, ctx_lexeme, FALSE)
             origin_found ==
                 /\ chain_resolution
                 /\ Len(relations) = 1
                 /\ is_a(relations[1].attrs.type, "ORIGIN")
                 /\ ~is_a(relations[1].attrs.type, "ROOT")
                 /\ IsLexemeBase(relations[1].src)
         IN  [x EXCEPT
                !.last_origin_source =
                    IF origin_found THEN relations[1].src ELSE @,
                !.from_chain_check =
                    IF origin_found THEN ~only_in_from_chain ELSE @,
                !.section_relations = @ \o relations]
    ELSE IF e = Punct
    THEN [x EXCEPT !.last_origin_source = None,
                   !.first_sentence_check = ~only_first_sentence,
                   !.from_chain_check = ~only_in_from_chain]
    ELSE IF ~x.from_chain_check /\ e.kind = "From"
    THEN [x EXCEPT !.from_chain_check = TRUE]
    ELSE x

ExtractStep(e) ==
    /\ Len(chain) < MaxChain
    /\ \E x \in {extract_step(Locals, e)} :
          /\ last_origin_source' = x.last_origin_source
          /\ from_chain_check' = x.from_chain_check
          /\ first_sentence_check' = x.first_sentence_check
          /\ section_relations' = x.section_relations
    /\ chain' = Append(chain, e)
    /\ UNCHANGED <<id, language, language_tree, configVars, storeVars,
                   budget, added, last, ruleVars, entityVars, lexiconVars,
                   resolverVars>>

EtymTypes == {"INHERITANCE", "ROOT", "COGNATE"}

\* a normalization that UncertainRule has marked
UncertainNormalization ==
    [LinkNormalization(<<2>>, "INHERITANCE") EXCEPT !.uncertain = TRUE]

\* From, the end of a sentence, and normalizations of one lexeme, of two
\* and of no target, and one marked uncertain
Elements ==
    {From, Punct, UncertainNormalization}
    \cup {LinkNormalization(<<n>>, ty) : n \in Etymons, ty \in EtymTypes}
    \cup {LinkNormalization(<<2, 3>>, "INHERITANCE"),
          Element("LinkNormalization", <<>>, TRUE, "INHERITANCE")}

InitEtym ==
    /\ NoRules
    /\ NoEntities
    /\ NoLexicon
    /\ NoResolution
    /\ id = Ascending
    /\ language = [n \in Node |-> NoLanguage]
    /\ language_tree = NoTree
    /\ budget = 0
    /\ InitStore
    /\ chain_resolution \in BOOLEAN
    /\ only_first_sentence \in BOOLEAN
    /\ only_in_from_chain \in BOOLEAN
    /\ last_origin_source = None
    /\ from_chain_check = ~only_in_from_chain
    /\ first_sentence_check = TRUE
    /\ section_relations = <<>>
    /\ chain = <<>>

NextEtym == \E e \in Elements : ExtractStep(e)

SpecEtym == InitEtym /\ [][NextEtym]_vars

\* --------------------------------------------- the rules of default_rules
MaxSeq == 5

\* annotations are tuples, words are strings
Mention(m) == Element("Mention", <<m>>, FALSE, "")
Plus == Element("Plus", <<>>, FALSE, "+")
Word == Element("Word", <<>>, FALSE, "")

\* the word a pattern of RelationAnnotator matches, and the name of the
\* PatternAnnotator built for it: the pair (self.name, relation), which no
\* string equals; kinds being strings, the pair is written as one
Abbreviation == Element("Word", <<>>, FALSE, "abbreviation")
abbreviation_name == "('Relation', ABBREV)"

\* ("XYOf", phrase) of XYAnnotator, ("Uncertain", word) of
\* uncertain_annotator, and the class LinkNormalization as an element
XYOf == Element("XYOf", <<>>, FALSE, "diminutive")
Uncertain == Element("Uncertain", <<>>, FALSE, "probably")
LinkNormalizationClass == Element("class", <<>>, FALSE, "LinkNormalization")

IsTuple(e) ==
    e.kind \in {"From", "Plus", "Punct", "Mention", "XYOf", "Uncertain",
                "Relation", abbreviation_name}
IsLinkNormalization(e) == e.kind = "LinkNormalization"

\* Python's s[a:b] and s[a:b] = x, for 0 <= a
Slice(s, a, b) == SubSeq(s, a + 1, Min(b, Len(s)))
SetSlice(s, a, b, x) ==
    Slice(s, 0, a) \o x \o Slice(s, IF b < a THEN a ELSE b, Len(s))

\* seq[i:e] = [l] for the inserts, the last first
RECURSIVE apply_inserts(_, _, _)
apply_inserts(s, inserts, k) ==
    IF k = 0 THEN s
    ELSE apply_inserts(SetSlice(s, inserts[k][1], inserts[k][2],
                                <<inserts[k][3]>>),
                       inserts, k - 1)

\* CompoundRule: the search to the left of the plus at i, element j of
\* reversed(seq[max(0, i - ctx):i])
RECURSIVE compound_left(_, _, _, _)
compound_left(s, i, j, ctx) ==
    IF j >= i \/ j >= ctx
    THEN [mentions |-> <<>>, left |-> 0]
    ELSE LET e2 == s[i - j]
         IN  IF IsTuple(e2)
             THEN IF e2.kind = "Mention"
                  THEN [mentions |-> <<e2.link_target[1]>>, left |-> j + 1]
                  ELSE [mentions |-> <<>>, left |-> 0]
             ELSE IF IsLinkNormalization(e2)
             THEN IF e2.type = "RELATED"
                  THEN [mentions |-> <<e2.link_target[1]>>, left |-> j + 1]
                  ELSE [mentions |-> <<>>, left |-> 0]
             ELSE compound_left(s, i, j + 1, ctx)

\* CompoundRule: the search to the right, element j of seq[i + 1:]
RECURSIVE compound_right(_, _, _, _, _, _)
compound_right(s, i, j, ctx, found, self_ctx) ==
    IF i + 1 + j >= Len(s) \/ ctx = 0
    THEN found
    ELSE LET e2 == s[i + 2 + j]
             hit == \/ e2.kind = "Mention"
                    \/ IsLinkNormalization(e2) /\ e2.type = "RELATED"
         IN  compound_right(
                 s, i, j + 1,
                 (IF e2.kind = "Plus" THEN self_ctx + 1 ELSE ctx) - 1,
                 IF hit
                 THEN [mentions |-> Append(found.mentions, e2.link_target[1]),
                       right |-> j + 1]
                 ELSE found,
                 self_ctx)

\* the insert CompoundRule makes for the plus at i, <<>> if none
compound_insert(i, l, r) ==
    IF l.left # 0 /\ r.right # 0
    THEN <<<<i - l.left, i + r.right,
             LinkNormalization(r.mentions, "MORPHOLOGICAL")>>>>
    ELSE <<>>

\* CompoundRule: the loop over the elements, from element i on
RECURSIVE compound_inserts(_, _, _, _, _)
compound_inserts(s, i, skip, inserts, ctx) ==
    IF i >= Len(s) THEN inserts
    ELSE IF skip # 0
    THEN compound_inserts(s, i + 1, skip - 1, inserts, ctx)
    ELSE IF s[i + 1] = Plus
    THEN LET l == compound_left(s, i, 0, ctx)
             r == compound_right(s, i, 0, ctx,
                                 [mentions |-> l.mentions, right |-> 0], ctx)
         IN  compound_inserts(
                 s, i + 1,
                 IF l.left # 0 /\ r.right # 0 THEN r.right - i - 1 ELSE 0,
                 inserts \o compound_insert(i, l, r), ctx)
    ELSE compound_inserts(s, i + 1, skip, inserts, ctx)

CompoundRule_ctx == 4

CompoundRule(s) ==
    LET inserts == compound_inserts(s, 0, 0, <<>>, CompoundRule_ctx)
    IN  apply_inserts(s, inserts, Len(inserts))

\* FromRule: the loop over the window after the From at i, element j of
\* seq[i + 1:min(len(seq), i + ctx + 1)]; x holds seq, whose RELATED
\* normalizations are changed in place, inserts and skip
RECURSIVE from_window(_, _, _, _)
from_window(x, i, j, ctx) ==
    IF j >= ctx \/ i + 1 + j >= Len(x.seq)
    THEN x
    ELSE LET e2 == x.seq[i + 2 + j]
         IN  IF IsTuple(e2)
             THEN IF e2.kind = "Mention"
                  THEN from_window(
                           [x EXCEPT
                              !.inserts = Append(@,
                                  <<i, i + j + 2,
                                    LinkNormalization(e2.link_target,
                                                      "ORIGIN")>>),
                              !.skip = j + 1],
                           i, j + 1, ctx)
                  ELSE IF e2.kind = "Punct"
                  THEN x
                  ELSE from_window(x, i, j + 1, ctx)
             ELSE IF IsLinkNormalization(e2) /\ e2.type = "RELATED"
             THEN from_window([x EXCEPT !.seq[i + 2 + j].type = "ORIGIN"],
                              i, j + 1, ctx)
             ELSE from_window(x, i, j + 1, ctx)

\* FromRule: the loop over the elements, from element i on
RECURSIVE from_inserts(_, _, _)
from_inserts(x, i, ctx) ==
    IF i >= Len(x.seq) THEN x
    ELSE LET y == IF x.skip # 0 THEN [x EXCEPT !.skip = @ - 1] ELSE x
         IN  from_inserts(IF y.seq[i + 1].kind = "From"
                          THEN from_window(y, i, 0, ctx)
                          ELSE y,
                          i + 1, ctx)

FromRule_ctx == 2

FromRule(s) ==
    LET x == from_inserts([seq |-> s, inserts |-> <<>>, skip |-> 0], 0,
                          FromRule_ctx)
    IN  apply_inserts(x.seq, x.inserts, Len(x.inserts))

\* PatternAnnotator.__call__ for a pattern that matches the whole of the
\* string text, match_as_value set: the string becomes (name, match)
PatternAnnotator(name, text, s) ==
    [i \in 1..Len(s) |->
        IF s[i].kind = "Word" /\ s[i].type = text
        THEN Element(name, <<>>, FALSE, text)
        ELSE s[i]]

\* RelationAnnotator: its rule for 'abbreviation'
RelationAnnotator(s) == PatternAnnotator(abbreviation_name, "abbreviation", s)

\* RelationRule: the search to the right of the marker at i for the
\* relation type reltype, element j of seq[i + 1:min(len(seq), i + 1 + ctx)]
RECURSIVE relation_window(_, _, _, _, _)
relation_window(x, i, j, ctx, reltype) ==
    IF j >= ctx \/ i + 1 + j >= Len(x.seq)
    THEN x
    ELSE LET e2 == x.seq[i + 2 + j]
         IN  IF IsTuple(e2)
             THEN IF e2.kind = "Mention"
                  THEN [x EXCEPT
                          !.inserts = Append(@,
                              <<i, i + j + 1,
                                LinkNormalization(e2.link_target, reltype)>>),
                          !.skip = j + 1]
                  ELSE IF e2.kind = "Plus"
                  THEN x
                  ELSE relation_window(x, i, j + 1, ctx, reltype)
             ELSE IF IsLinkNormalization(e2) /\ e2.type = "RELATED"
             THEN [x EXCEPT
                     !.seq[i + 2 + j].type = reltype,
                     !.inserts = Append(@, <<i, i + j + 1,
                                             LinkNormalizationClass>>),
                     !.skip = j + 1]
             ELSE relation_window(x, i, j + 1, ctx, reltype)

\* RelationRule: the loop over the elements, from element i on
RECURSIVE relation_inserts(_, _, _)
relation_inserts(x, i, ctx) ==
    IF i >= Len(x.seq) THEN x
    ELSE LET e == x.seq[i + 1]
         IN  relation_inserts(
                 IF x.skip # 0 THEN [x EXCEPT !.skip = @ - 1]
                 ELSE IF e.kind = "Relation"
                 THEN relation_window(x, i, 0, ctx, e.type)
                 ELSE IF e.kind = "XYOf"
                 THEN relation_window(x, i, 0, ctx, "ORIGIN")
                 ELSE x,
                 i + 1, ctx)

RelationRule_ctx == 3

RelationRule(s) ==
    LET x == relation_inserts([seq |-> s, inserts |-> <<>>, skip |-> 0], 0,
                              RelationRule_ctx)
    IN  apply_inserts(x.seq, x.inserts, Len(x.inserts))

\* UncertainRule: the first normalization among the ctx elements after the
\* marker at i gets uncertain; 0 when there is none, else its distance
RECURSIVE uncertain_window(_, _, _, _)
uncertain_window(s, i, j, ctx) ==
    IF j >= ctx \/ i + 1 + j >= Len(s) THEN 0
    ELSE IF IsLinkNormalization(s[i + 2 + j]) THEN j + 1
    ELSE uncertain_window(s, i, j + 1, ctx)

\* UncertainRule: the loop over seq[:-1], from element i on
RECURSIVE uncertain_loop(_, _, _, _)
uncertain_loop(s, i, skip, ctx) ==
    IF i >= Len(s) - 1 THEN s
    ELSE IF skip # 0 THEN uncertain_loop(s, i + 1, skip - 1, ctx)
    ELSE IF s[i + 1].kind = "Uncertain"
    THEN LET d == uncertain_window(s, i, 0, ctx)
         IN  uncertain_loop(IF d = 0 THEN s
                            ELSE [s EXCEPT ![i + 1 + d].uncertain = TRUE],
                            i + 1, d, ctx)
    ELSE uncertain_loop(s, i + 1, 0, ctx)

UncertainRule_ctx == 3

UncertainRule(s) == uncertain_loop(s, 0, 0, UncertainRule_ctx)

\* MentionFallback: every mention but one at the end becomes a RELATED
\* normalization
MentionFallback(s) ==
    [i \in 1..Len(s) |->
        IF i < Len(s) /\ s[i].kind = "Mention"
        THEN LinkNormalization(s[i].link_target, "RELATED")
        ELSE s[i]]

\* the rules of default_rules that change a sequence of words, From, Plus,
\* Punct, XYOf and Uncertain annotations, mentions and normalizations, in
\* their order; NamedAfterRule and EtylMentionRule act on Wiki and Name?
\* annotations and on etyl templates only
default_rules ==
    <<"RelationAnnotator", "CompoundRule", "FromRule", "RelationRule",
      "MentionFallback", "UncertainRule">>

ApplyRule(rule, s) ==
    IF rule = "RelationAnnotator" THEN RelationAnnotator(s)
    ELSE IF rule = "CompoundRule" THEN CompoundRule(s)
    ELSE IF rule = "FromRule" THEN FromRule(s)
    ELSE IF rule = "RelationRule" THEN RelationRule(s)
    ELSE IF rule = "MentionFallback" THEN MentionFallback(s)
    ELSE UncertainRule(s)

\* SequenceRules.__call__: ret = rule(ret), for the next rule
RuleCall(rule) ==
    /\ applied < Len(default_rules)
    /\ rule = default_rules[applied + 1]
    /\ ret' = ApplyRule(rule, ret)
    /\ applied' = applied + 1
    /\ UNCHANGED <<id, language, language_tree, configVars, extractVars,
                   storeVars, budget, added, last, given, entityVars,
                   lexiconVars, resolverVars>>

\* what MentionRule may leave: words, annotations, mentions of the lexemes
\* 2 and 3 and the normalization of a template
Annotated ==
    {From, Plus, Punct, Word, Mention(2), Mention(3),
     LinkNormalization(<<3>>, "INHERITANCE")}

InitRules ==
    /\ id = Ascending
    /\ language = [n \in Node |-> NoLanguage]
    /\ language_tree = NoTree
    /\ budget = 0
    /\ InitStore
    /\ chain_resolution = TRUE
    /\ only_first_sentence = TRUE
    /\ only_in_from_chain = TRUE
    /\ last_origin_source = None
    /\ from_chain_check = FALSE
    /\ first_sentence_check = TRUE
    /\ section_relations = <<>>
    /\ chain = <<>>
    /\ NoEntities
    /\ NoLexicon
    /\ NoResolution
    /\ given \in UNION {[1..n -> Annotated] : n \in 1..MaxSeq}
    /\ ret = given
    /\ applied = 0

NextRules == \E rule \in Range(default_rules) : RuleCall(rule)

SpecRules == InitRules /\ [][NextRules]_vars

\* the same rules on sequences with the words and annotations that
\* RelationAnnotator, RelationRule and UncertainRule look at
MaxMarked == 4

Marked ==
    {Abbreviation, XYOf, Uncertain, Word, Plus, Mention(2),
     LinkNormalization(<<3>>, "RELATED")}

InitMarked ==
    /\ id = Ascending
    /\ language = [n \in Node |-> NoLanguage]
    /\ language_tree = NoTree
    /\ budget = 0
    /\ InitStore
    /\ chain_resolution = TRUE
    /\ only_first_sentence = TRUE
    /\ only_in_from_chain = TRUE
    /\ last_origin_source = None
    /\ from_chain_check = FALSE
    /\ first_sentence_check = TRUE
    /\ section_relations = <<>>
    /\ chain = <<>>
    /\ NoEntities
    /\ NoLexicon
    /\ NoResolution
    /\ given \in UNION {[1..n -> Marked] : n \in 1..MaxMarked}
    /\ ret = given
    /\ applied = 0

SpecMarked == InitMarked /\ [][NextRules]_vars

\* ------------------------------------------------------------- entities
MaxIdentify == 3

from_template_data(template_data) ==
    Entity(template_data.name, template_data.occ, template_data.nat,
           template_data.born, template_data.died, template_data.wplink)

\* the attributes on which try_merge looks for a conflict
MergeAttrs == {"wplink", "born", "died", "nat"}

\* try_merge that sees no conflict in the year of birth
try_merge_any_born(e1, e2) ==
    IF \E attr \in MergeAttrs \ {"born"} :
           e1[attr] # None /\ e2[attr] # None /\ e1[attr] # e2[attr]
    THEN [merged |-> FALSE, e1 |-> e1]
    ELSE [merged |-> TRUE,
          e1 |-> [e1 EXCEPT
                    !.occ = e1.occ \o e2.occ,
                    !.nat = IF @ # None THEN @ ELSE e2.nat,
                    !.born = IF @ # None THEN @ ELSE e2.born,
                    !.died = IF @ # None THEN @ ELSE e2.died,
                    !.wplink = IF @ # None THEN @ ELSE e2.wplink]]

\* try_merge: [merged, e1], e1 as the call leaves it
try_merge(e1, e2) ==
    IF \E attr \in MergeAttrs :
           e1[attr] # None /\ e2[attr] # None /\ e1[attr] # e2[attr]
    THEN [merged |-> FALSE, e1 |-> e1]
    ELSE [merged |-> TRUE,
          e1 |-> [e1 EXCEPT
                    !.occ = e1.occ \o e2.occ,
                    !.nat = IF @ # None THEN @ ELSE e2.nat,
                    !.born = IF @ # None THEN @ ELSE e2.born,
                    !.died = IF @ # None THEN @ ELSE e2.died,
                    !.wplink = IF @ # None THEN @ ELSE e2.wplink]]

\* identify: [entities, returned, merged]; returned is the position in the
\* bucket of the entity returned
identify(store, name, template_data) ==
    LET candidates == store[name]
        e == IF template_data # NoData
             THEN from_template_data(template_data)
             ELSE Entity(name, <<>>, None, None, None, None)
        hits == {k \in 1..Len(candidates) : try_merge(candidates[k], e).merged}
    IN  IF hits # {}
        THEN LET k == CHOOSE h \in hits : \A g \in hits : h <= g
             IN  [entities |-> [store EXCEPT ![name][k] =
                                   try_merge(candidates[k], e).e1],
                  returned |-> k, merged |-> TRUE]
        ELSE [entities |-> [store EXCEPT ![name] = Append(candidates, e)],
              returned |-> Len(candidates) + 1, merged |-> FALSE]

Identify(name, template_data) ==
    /\ identified.calls < MaxIdentify
    /\ \E r \in {identify(entities, name, template_data)} :
          /\ entities' = r.entities
          /\ identified' = [name |-> name, template_data |-> template_data,
                            returned |-> r.returned, merged |-> r.merged,
                            calls |-> identified.calls + 1]
    /\ UNCHANGED <<id, language, language_tree, configVars, extractVars,
                   storeVars, budget, added, last, ruleVars, lexiconVars,
                   resolverVars>>

\* the template data of the calls: None, or a dict with the name and, for
\* the first name, at most two of wplink, born, died and nat
TemplateData(name) ==
    {NoData, Entity(name, <<"occ2">>, None, 1888, None, None)} \cup
    {d \in [name : {name} \cap {"test1"}, occ : {<<>>, <<"occ1">>},
            nat : {None, 1, 2}, born : {None, 1888, 2001},
            died : {None, 1, 2}, wplink : {None, 1, 2}] :
        Cardinality({attr \in MergeAttrs : d[attr] # None}) <= 2}

InitEntities ==
    /\ id = Ascending
    /\ language = [n \in Node |-> NoLanguage]
    /\ language_tree = NoTree
    /\ budget = 0
    /\ InitStore
    /\ NoExtraction

NextEntities ==
    \E name \in Names : \E template_data \in TemplateData(name) :
        Identify(name, template_data)

SpecEntities == InitEntities /\ [][NextEntities]_vars

\* -------------------------------------------------------------- lexicon
MaxLexiconCalls == 3

\* the order the index lists the languages of a term in
LanguageOrder == <<"en", "enm">>

\* the lexemes make_lexemes gives for an entry, as their number: one for
\* each etymology section
make_lexemes(etym_count) == etym_count

Lexicon == [single_meanings |-> single_meanings,
            multi_meanings |-> multi_meanings,
            no_entries |-> no_entries]

\* add_from_entry: [lexicon, result]; result is KeyError or the kind of
\* the lexemes returned
add_from_entry(lex, term, lang, etym_count) ==
    IF etym_count > 1
    THEN IF lex.multi_meanings[term].present
         THEN [lexicon |-> [lex EXCEPT
                   !.multi_meanings[term].by_language[lang] =
                       make_lexemes(etym_count)],
               result |-> "lexemes"]
         ELSE [lexicon |-> lex, result |-> "KeyError"]
    ELSE IF \E i \in 1..Len(lex.single_meanings[term]) :
                lex.single_meanings[term][i] = lang
    THEN [lexicon |-> lex, result |-> "stub"]
    ELSE [lexicon |-> lex, result |-> "KeyError"]

\* the multi-meaning entries of the index added one after the other
RECURSIVE add_entries(_, _, _)
add_entries(lex, idx, todo) ==
    IF todo = {} THEN lex
    ELSE LET tl == CHOOSE x \in todo : TRUE
         IN  add_entries(
                 add_from_entry(lex, tl[1], tl[2], idx[tl]).lexicon,
                 idx, todo \ {tl})

\* add_from_wiktionary, for an index whose entries the wiktionary holds
add_from_wiktionary(idx) ==
    add_entries(
        [single_meanings |->
             [term \in Terms |->
                 SelectSeq(LanguageOrder,
                           LAMBDA l : idx[<<term, l>>] # NotIndexed
                                      /\ ~(idx[<<term, l>>] > 1))],
         multi_meanings |->
             [term \in Terms |->
                 [present |-> \E l \in Languages : idx[<<term, l>>] > 1,
                  by_language |->
                      [l \in Languages |->
                          IF idx[<<term, l>>] > 1 THEN 0 ELSE Missing]]],
         no_entries |-> [term \in Terms |-> <<>>]],
        idx, {tl \in Terms \X Languages : idx[tl] > 1})

add_no_entry(lex, term, lang) ==
    [lex EXCEPT !.no_entries[term] = Append(@, lang)]

\* get(term, language): the kind of the lexemes found, "" for an empty list
get(lex, term, lang) ==
    IF \E i \in 1..Len(lex.single_meanings[term]) :
           lex.single_meanings[term][i] = lang
    THEN "stub"
    ELSE IF /\ lex.multi_meanings[term].present
            /\ lex.multi_meanings[term].by_language[lang] # Missing
    THEN IF lex.multi_meanings[term].by_language[lang] > 0
         THEN "lexemes" ELSE ""
    ELSE IF \E i \in 1..Len(lex.no_entries[term]) :
                lex.no_entries[term][i] = lang
    THEN "no_entry"
    ELSE ""

\* _identify_lexeme, as far as it changes the lexicon
identify_lexeme(lex, term, lang) ==
    LET homonyms == get(lex, term, lang)
    IN  IF homonyms = ""
        THEN [lexicon |-> add_no_entry(lex, term, lang),
              result |-> "no_entry"]
        ELSE [lexicon |-> lex, result |-> homonyms]

LexiconCall(op, term, lang, etym_count, r) ==
    /\ lexicon_call.calls < MaxLexiconCalls
    /\ single_meanings' = r.lexicon.single_meanings
    /\ multi_meanings' = r.lexicon.multi_meanings
    /\ no_entries' = r.lexicon.no_entries
    /\ lexicon_call' = [op |-> op, term |-> term, language |-> lang,
                        etym_count |-> etym_count, result |-> r.result,
                        calls |-> lexicon_call.calls + 1]
    /\ UNCHANGED <<id, language, language_tree, configVars, extractVars,
                   storeVars, budget, added, last, ruleVars, entityVars,
                   index, resolverVars>>

AddFromEntry(term, lang, etym_count) ==
    LexiconCall("add_from_entry", term, lang, etym_count,
                add_from_entry(Lexicon, term, lang, etym_count))

AddNoEntry(term, lang) ==
    LexiconCall("add_no_entry", term, lang, 0,
                [lexicon |-> add_no_entry(Lexicon, term, lang),
                 result |-> "no_entry"])

IdentifyLexeme(term, lang) ==
    LexiconCall("_identify_lexeme", term, lang, 0,
                identify_lexeme(Lexicon, term, lang))

\* a lexicon built from an index of entries with one or two etymologies
InitLexicon ==
    /\ id = Ascending
    /\ language = [n \in Node |-> NoLanguage]
    /\ language_tree = NoTree
    /\ budget = 0
    /\ InitStore
    /\ chain_resolution = TRUE
    /\ only_first_sentence = TRUE
    /\ only_in_from_chain = TRUE
    /\ last_origin_source = None
    /\ from_chain_check = FALSE
    /\ first_sentence_check = TRUE
    /\ section_relations = <<>>
    /\ chain = <<>>
    /\ NoRules
    /\ NoEntities
    /\ NoResolution
    /\ index \in [Terms \X Languages -> {NotIndexed, 1, 2}]
    /\ single_meanings = add_from_wiktionary(index).single_meanings
    /\ multi_meanings = add_from_wiktionary(index).multi_meanings
    /\ no_entries = add_from_wiktionary(index).no_entries
    /\ lexicon_call = NoLexiconCall

NextLexicon ==
    \E term \in Terms, lang \in Languages :
        \/ \E etym_count \in {1, 2} : AddFromEntry(term, lang, etym_count)
        \/ AddNoEntry(term, lang)
        \/ IdentifyLexeme(term, lang)

SpecLexicon == InitLexicon /\ [][NextLexicon]_vars

\* ------------------------------------------------------ the node resolver
\* Gloss(pos, text, id, labels) and EntryLexeme(etymid, glosses); "" is a
\* None or an empty string, labels is the set of the labels
Gloss(pos, text, gid, labels) ==
    [pos |-> pos, text |-> text, id |-> gid, labels |-> labels]
EntryLexeme(etymid, glosses) == [etymid |-> etymid, glosses |-> glosses]

\* _identify_by_senseid, from homonym i on: the position of the first
\* homonym whose etymid or one of whose gloss ids is id_; the function
\* ends without a return, with None, when there is none
RECURSIVE identify_by_senseid(_, _, _)
identify_by_senseid(id_, homonyms, i) ==
    IF i > Len(homonyms) THEN 0
    ELSE IF homonyms[i].etymid = id_ THEN i
    ELSE IF \E k \in 1..Len(homonyms[i].glosses) :
               homonyms[i].glosses[k].id = id_
    THEN i
    ELSE identify_by_senseid(id_, homonyms, i + 1)

\* TemplateHandler.determine_pos
determine_pos(template_pos, gloss) == template_pos

\* the homonyms with a gloss that has a text, and a text and the pos
WithText(homonyms) ==
    {h \in 1..Len(homonyms) :
        \E k \in 1..Len(homonyms[h].glosses) : homonyms[h].glosses[k].text # ""}
WithPos(homonyms, pos) ==
    {h \in 1..Len(homonyms) :
        \E k \in 1..Len(homonyms[h].glosses) :
            /\ homonyms[h].glosses[k].text # ""
            /\ homonyms[h].glosses[k].pos = pos}

\* the first homonym with a gloss labelled qualifier, 0 if none
RECURSIVE by_qualifier(_, _, _)
by_qualifier(qualifier, homonyms, i) ==
    IF i > Len(homonyms) THEN 0
    ELSE IF \E k \in 1..Len(homonyms[i].glosses) :
               qualifier \in homonyms[i].glosses[k].labels
    THEN i
    ELSE by_qualifier(qualifier, homonyms, i + 1)

\* NodeResolver.fallback
fallback(candidates) == 1

\* _identify_entry_lexeme after the test of id: select is what
\* gloss_matcher.select gives, a candidate, or 0 when it raises ValueError
identify_without_id(template_data, homonyms, select) ==
    LET template_pos == determine_pos(template_data.pos, template_data.t)
        by_pos == IF template_pos # "" THEN WithPos(homonyms, template_pos)
                  ELSE {}
        cands == IF by_pos # {} THEN by_pos ELSE WithText(homonyms)
        q == by_qualifier(template_data.q, homonyms, 1)
    IN  IF Cardinality(by_pos) = 1
        THEN CHOOSE h \in by_pos : TRUE
        ELSE IF cands # {} /\ template_data.t # "" /\ select \in cands
        THEN select
        ELSE IF template_data.q # "" /\ q # 0
        THEN q
        ELSE fallback(homonyms)

\* _identify_entry_lexeme: the position of the homonym returned, 0 for None
identify_entry_lexeme(template_data, homonyms, select) ==
    IF template_data.id # ""
    THEN identify_by_senseid(template_data.id, homonyms, 1)
    ELSE identify_without_id(template_data, homonyms, select)

IdentifyEntryLexeme(template_data, select) ==
    /\ resolved' = [resolved EXCEPT
                      !.template_data = template_data,
                      !.returned = identify_entry_lexeme(template_data,
                                                         resolved.homonyms,
                                                         select),
                      !.called = TRUE]
    /\ UNCHANGED <<id, language, language_tree, configVars, extractVars,
                   storeVars, budget, added, last, ruleVars, entityVars,
                   lexiconVars, descendants>>

\* the homonyms of one (term, language): two entry lexemes of one gloss
Glosses ==
    {Gloss(pos, text, gid, labels) :
        pos \in {"noun", "verb"}, text \in {"", "feline"},
        gid \in {"", "Q1"}, labels \in {{}, {"obsolete"}}}
EntryLexemes == {EntryLexeme(etymid, <<g>>) : etymid \in {"", "E1"}, g \in Glosses}

References ==
    {Reference(id_, pos, t, q) :
        id_ \in {"", "E1", "Q1", "Q9"}, pos \in {"", "noun"},
        t \in {"", "a cat"}, q \in {"", "obsolete"}}

InitResolve ==
    /\ id = Ascending
    /\ language = [n \in Node |-> NoLanguage]
    /\ language_tree = NoTree
    /\ budget = 0
    /\ InitStore
    /\ chain_resolution = TRUE
    /\ only_first_sentence = TRUE
    /\ only_in_from_chain = TRUE
    /\ last_origin_source = None
    /\ from_chain_check = FALSE
    /\ first_sentence_check = TRUE
    /\ section_relations = <<>>
    /\ chain = <<>>
    /\ NoRules
    /\ NoEntities
    /\ NoLexicon
    /\ descendants = NoDescendants
    /\ \E h1, h2 \in EntryLexemes :
          resolved = [NoResolved EXCEPT !.homonyms = <<h1, h2>>]

NextResolve ==
    \E template_data \in References : \E select \in 0..2 :
        IdentifyEntryLexeme(template_data, select)

SpecResolve == InitResolve /\ [][NextResolve]_vars

\* ------------------------------------------- the descendants extractor
MaxItems == 3

\* an item of a list: the normalizations of its templates, and its
\* sublists, each a sequence of items
Item(templates, sublists) == [templates |-> templates, sublists |-> sublists]

\* the loop over the templates of an item, from template k on: sub_ctx and
\* the relations yielded
RECURSIVE from_templates(_, _, _, _)
from_templates(x, templates, k, current_context_lexeme) ==
    IF k > Len(templates) THEN x
    ELSE LET relations == relate_to_context_lexeme(templates[k],
                                                   current_context_lexeme, TRUE)
         IN  from_templates(
                 [sub_ctx |-> IF Len(relations) = 1 THEN relations[1].tgt
                              ELSE x.sub_ctx,
                  relations |-> x.relations \o relations],
                 templates, k + 1, current_context_lexeme)

\* the relations from_list yields for the items of current_list from item
\* i on, with sub_ctx as the items before left it
RECURSIVE from_list(_, _, _, _)
\* the relations of the sublists of an item from sublist k on, each read
\* by from_list with sub_ctx as its context
RECURSIVE from_sublists(_, _, _)
from_sublists(sublists, k, sub_ctx) ==
    IF k > Len(sublists) THEN <<>>
    ELSE from_list(sublists[k], 1, sub_ctx, sub_ctx)
         \o from_sublists(sublists, k + 1, sub_ctx)

\* one pass of the loop of from_list, for item1: sub_ctx as the pass leaves
\* it, the relations of the templates of item1, and all relations yielded
from_item(item1, sub_ctx, current_context_lexeme) ==
    LET x == from_templates(
                 [sub_ctx |-> IF item1.templates = <<>>
                              THEN current_context_lexeme ELSE sub_ctx,
                  relations |-> <<>>],
                 item1.templates, 1, current_context_lexeme)
    IN  [sub_ctx |-> x.sub_ctx,
         own |-> x.relations,
         relations |-> x.relations
                       \o from_sublists(item1.sublists, 1, x.sub_ctx)]

from_list(current_list, i, sub_ctx, current_context_lexeme) ==
    IF i > Len(current_list) THEN <<>>
    ELSE LET x == from_item(current_list[i], sub_ctx, current_context_lexeme)
         IN  x.relations
             \o from_list(current_list, i + 1, x.sub_ctx,
                          current_context_lexeme)

\* the next item of the list of the section is read
FromListItem(item1) ==
    /\ Len(descendants.items) < MaxItems
    /\ \E x \in {from_item(item1, descendants.sub_ctx, ctx_lexeme)} :
          descendants' = [items |-> Append(descendants.items, item1),
                          sub_ctx |-> x.sub_ctx,
                          own |-> x.own,
                          relations |-> descendants.relations \o x.relations]
    /\ UNCHANGED <<id, language, language_tree, configVars, extractVars,
                   storeVars, budget, added, last, ruleVars, entityVars,
                   lexiconVars, resolved>>

\* the templates of an item: none, one that yields one relation, one whose
\* target is not resolved, one of two targets, two of one target each
ItemTemplates ==
    {<<>>,
     <<LinkNormalization(<<2>>, "INHERITANCE")>>,
     <<LinkNormalization(<<None>>, "INHERITANCE")>>,
     <<LinkNormalization(<<2, 3>>, "INHERITANCE")>>,
     <<LinkNormalization(<<2>>, "INHERITANCE"),
       LinkNormalization(<<3>>, "BORROWING")>>}

\* an item has no sublist or one, of one item with one template
Items ==
    {Item(templates, sublists) :
        templates \in ItemTemplates,
        sublists \in {<<>>,
                      <<<<Item(<<LinkNormalization(<<Phantom>>, "INHERITANCE")>>,
                               <<>>)>>>>}}

InitDescendants ==
    /\ id = Ascending
    /\ language = [n \in Node |-> NoLanguage]
    /\ language_tree = NoTree
    /\ budget = 0
    /\ InitStore
    /\ chain_resolution = TRUE
    /\ only_first_sentence = TRUE
    /\ only_in_from_chain = TRUE
    /\ last_origin_source = None
    /\ from_chain_check = FALSE
    /\ first_sentence_check = TRUE
    /\ section_relations = <<>>
    /\ chain = <<>>
    /\ NoRules
    /\ NoEntities
    /\ NoLexicon
    /\ resolved = NoResolved
    /\ descendants = [NoDescendants EXCEPT !.sub_ctx = ctx_lexeme]

NextDescendants == \E item1 \in Items : FromListItem(item1)

SpecDescendants == InitDescendants /\ [][NextDescendants]_vars

\* ================================================================ claims
Stores == {related, sibling, origin, origin_cycles_and_parallel_edges, graph}

\* the positions <<pair, index>> of the edges a store holds
Entries(g) == UNION {{<<p, i>> : i \in 1..Len(g[p])} : p \in Pairs}

\* the edges of a keyed store as <<src, tgt, type>>
TypedEdges(g) ==
    {<<e[1][1], e[1][2], g[e[1]][e[2]].attrs.type>> : e \in Entries(g)}

\* ------------------------------------------------------------------- C6
SelfLoops == {Relation(n, n, Plain(ty)) : n \in 1..NumNodes, ty \in Types}

\* C6: in every reachable state of the store, add of a relation whose source
\* and target are the same node returns with every store unchanged, and no
\* store and no graph, finalized with whatever options, holds an edge with
\* src = tgt.
C6_SelfLoopsDropped ==
    /\ \A relation \in SelfLoops : add(Store, relation).store = Store
    /\ \A n \in Node : \A g \in Stores : g[<<n, n>>] = <<>>

\* a self-loop was added to a store that holds edges
C6_Witness ==
    /\ last.op = "add"
    /\ last.result = "SELFLOOP"
    /\ Edges(origin) # {}

\* ------------------------------------------------------------------- C5
\* C5: after finalize with unspecific reduction, no RELATED edge of the graph
\* connects two nodes of one weakly connected component of the union of
\* origin and sibling as the unspecific reduction found them.
C5_NoRedundantRelated ==
    (last.op = "finalize" /\ last.flags[2]) =>
        \A e \in TypedEdges(graph) :
            e[3] = "RELATED" => ~SameComponent(last.specific, e[1], e[2])

\* ------------------------------------------------------------------- C4
\* C4: whenever transitive_reduce_directed has run, alone or inside finalize,
\* with in-place or with batch cycle removal, the cycle removal has returned,
\* the edges of origin handed to the transitive reduction were acyclic (the
\* reduction did not raise), and origin is acyclic afterwards.
C4_OriginAcyclic ==
    (\/ last.op = "transitive_reduce_directed"
     \/ (last.op = "finalize" /\ last.flags[1])) =>
        /\ last.result = "ok"
        /\ is_directed_acyclic_graph(last.dag)
        /\ is_directed_acyclic_graph(Edges(origin))

\* finalize with in-place cycle removal has met a cycle of three or more
C4_Witness ==
    /\ last.op = "finalize"
    /\ last.flags[1]
    /\ last.flags[3]
    /\ \E c \in simple_cycles(Edges(graph)) : Len(c) >= 3

\* ------------------------------------------------------------------- C7
\* the edges of E that lie on a cycle of E
OnCycle(E) == {e \in E : has_path(E, e[2], e[1])}

KeyedOrigin(g) == [p \in Pairs |-> Keyed(g[p])]

\* C7: remove_cycles, called after the adds, leaves in origin exactly the
\* edges that lay on no cycle, the edges that lay on a cycle are in the
\* overflow store, and origin and overflow together hold the same edges
\* (source, target, type) as before.
C7_RemoveCyclesShelves ==
    [][last'.op = "remove_cycles" =>
        /\ Edges(origin') = Edges(origin) \ OnCycle(Edges(origin))
        /\ OnCycle(Edges(origin)) \subseteq
               Edges(origin_cycles_and_parallel_edges')
        /\ TypedEdges(KeyedOrigin(origin'))
               \cup TypedEdges(origin_cycles_and_parallel_edges')
           = TypedEdges(KeyedOrigin(origin))
               \cup TypedEdges(origin_cycles_and_parallel_edges)]_vars

\* A->B, B->C, C->A, C->D: origin keeps C->D, the overflow store holds the
\* three edges of the cycle
C7_Witness ==
    /\ last.op = "remove_cycles"
    /\ Edges(origin) = {<<3, 4>>}
    /\ TypedEdges(origin_cycles_and_parallel_edges)
           = {<<1, 2, "COMPOUND">>, <<2, 3, "COMPOUND">>, <<3, 1, "COMPOUND">>}

\* ------------------------------------------------------------------- C8
\* C8: after transitive_reduce_directed, origin has no edge u->w beside a
\* path from u to w of length at least 2, and a node reaches another in
\* origin exactly if it did directly after the cycle removal.
C8_TransitiveReduction ==
    (last.op = "transitive_reduce_directed" /\ last.result = "ok") =>
        LET E == Edges(origin)
        IN  /\ \A e \in E :
                   ~\E m \in Node \ {e[1], e[2]} :
                       <<e[1], m>> \in E /\ has_path(E, m, e[2])
            /\ \A u, w \in Node : has_path(E, u, w) <=> has_path(last.dag, u, w)

\* A->B, B->C, A->C: the reduction has removed A->C
C8_Witness ==
    /\ last.op = "transitive_reduce_directed"
    /\ last.dag = {<<1, 2>>, <<2, 3>>, <<1, 3>>}
    /\ Edges(origin) = {<<1, 2>>, <<2, 3>>}

\* ------------------------------------------------------------------- C1
AddedTypes == {added[i].attrs.type : i \in 1..Len(added)}

OnOneChain(T) == \A a, b \in T : is_a(a, b) \/ is_a(b, a)

MostSpecific(T) == CHOOSE t \in T : \A u \in T : is_a(t, u)

\* every recorded add was a relation from A to B, of types on one is_a chain
ChainFromTo(A, B) ==
    /\ added # <<>>
    /\ \A i \in 1..Len(added) : added[i].src = A /\ added[i].tgt = B
    /\ OnOneChain(AddedTypes)

OneEdge(A, B) ==
    /\ Cardinality(Entries(graph)) = 1
    /\ TypedEdges(graph) = {<<A, B, MostSpecific(AddedTypes)>>}

\* C1 as stated: with no language tree, after adds that are all relations
\* A->B of types on one is_a chain, the finalized graph holds exactly one
\* edge, from A to B, of the most specific type added.
C1_OneEdgeOfChain ==
    \A A, B \in Node :
        (A # B /\ last.op = "finalize" /\ ChainFromTo(A, B)) => OneEdge(A, B)

\* C1, amended: the same when at least one of the added types is directed.
C1_OneEdgeOfDirectedChain ==
    \A A, B \in Node :
        (/\ A # B
         /\ last.op = "finalize"
         /\ ChainFromTo(A, B)
         /\ \E t \in AddedTypes : directed(t)) => OneEdge(A, B)

\* RELATED, LEARNED_BORROWING, BORROWING from 1 to 2, then finalize
C1_Witness ==
    /\ last.op = "finalize"
    /\ Len(added) = 3
    /\ \A i \in 1..3 : added[i].src = 1 /\ added[i].tgt = 2
    /\ added[1].attrs.type = "RELATED"
    /\ added[2].attrs.type = "LEARNED_BORROWING"
    /\ added[3].attrs.type = "BORROWING"
    /\ TypedEdges(graph) = {<<1, 2, "LEARNED_BORROWING">>}

\* ------------------------------------------------------------------- C2
\* C2: an add that follows finalize raises and changes neither the graph nor
\* any store.
C2_AddAfterFinalizeRejected ==
    [][(last.op = "finalize" /\ last'.op = "add") =>
          (last'.result = "ValueError" /\ UNCHANGED storeVars)]_vars

\* ------------------------------------------------------------------- C3
RECURSIVE AddAll(_, _, _)
AddAll(rs, relations, i) ==
    IF i > Len(relations) THEN rs
    ELSE AddAll(add(rs, relations[i]).store, relations, i + 1)

Reverse(seq) == [i \in 1..Len(seq) |-> seq[Len(seq) + 1 - i]]

\* the edges of the graph as <<src, tgt, type, uncertain>>
EdgeView(g) ==
    {<<e[1][1], e[1][2], g[e[1]][e[2]].attrs.type,
       g[e[1]][e[2]].attrs.uncertain>> : e \in Entries(g)}

\* the graph finalize returns when the recorded relations are added to an
\* empty store in the opposite order
ReversedGraph ==
    finalize(AddAll(EmptyStore, Reverse(added), 1),
             last.flags[1], last.flags[2], last.flags[3],
             [n \in Node |-> 0]).store.graph

\* C3: the finalized graph has the same edges (source, target, type) with
\* the same uncertain flags as the graph of the same relations added in the
\* opposite order.
C3_AddCommutes ==
    last.op = "finalize" => EdgeView(graph) = EdgeView(ReversedGraph)

\* ------------------------------------------------------------------- C9
\* language a is a proper ancestor of language b in the tree
Older(a, b) == a # b /\ has_path(language_tree, a, b)

\* the edges src -> tgt of origin and of the overflow store
Directed(o, c, src, tgt) == <<o[<<src, tgt>>], c[<<src, tgt>>]>>

\* C9: with a language tree, an add of a HISTORICAL relation whose target
\* language is older than its source language stores it as tgt -> src and
\* alters nothing held as src -> tgt; an add of a HISTORICAL relation between
\* languages that no path joins stores it as src -> tgt; and every edge of
\* a HISTORICAL type held in a store or in the graph, between nodes of two
\* languages one of which is older, runs from the older to the newer.
C9_HistoricalOrder ==
    [][/\ (last'.op = "add" /\ last'.result = "ok"
                /\ is_a(last'.relation[1].attrs.type, "HISTORICAL")) =>
          LET r == last'.relation[1]
              ls == language[r.src]
              lt == language[r.tgt]
              now(u, v) == Directed(origin', origin_cycles_and_parallel_edges',
                                    u, v)
              was(u, v) == Directed(origin, origin_cycles_and_parallel_edges,
                                    u, v)
          IN  /\ Older(lt, ls) =>
                    /\ now(r.tgt, r.src) # <<<<>>, <<>>>>
                    /\ now(r.src, r.tgt) = was(r.src, r.tgt)
              /\ (ls # lt /\ ~Older(lt, ls) /\ ~Older(ls, lt)) =>
                    /\ now(r.src, r.tgt) # <<<<>>, <<>>>>
                    /\ now(r.tgt, r.src) = was(r.tgt, r.src)
       /\ \A e \in TypedEdges(KeyedOrigin(origin'))
                    \cup TypedEdges(origin_cycles_and_parallel_edges')
                    \cup TypedEdges(graph') :
             (is_a(e[3], "HISTORICAL")
                 /\ (\/ Older(language[e[1]], language[e[2]])
                     \/ Older(language[e[2]], language[e[1]]))) =>
                Older(language[e[1]], language[e[2]])]_vars

\* a relation en -> ang of a HISTORICAL type was added and is held ang -> en
C9_Witness ==
    /\ last.op = "add"
    /\ last.relation # <<>>
    /\ is_a(last.relation[1].attrs.type, "HISTORICAL")
    /\ language[last.relation[1].src] = "en"
    /\ language[last.relation[1].tgt] = "ang"
    /\ origin[<<last.relation[1].tgt, last.relation[1].src>>] # <<>>

\* ------------------------------------------------------------------ C10
\* a normalization that yields one ORIGIN, non-ROOT relation to a lexeme
SingleOrigin(e) ==
    /\ e.kind = "LinkNormalization"
    /\ ~e.no_target
    /\ Len(e.link_target) = 1
    /\ IsLexemeBase(e.link_target[1])
    /\ is_a(e.type, "ORIGIN")
    /\ ~is_a(e.type, "ROOT")

\* the chain begins: From, B, From, C
FromBFromC ==
    /\ Len(chain) >= 4
    /\ chain[1] = From
    /\ SingleOrigin(chain[2])
    /\ chain[3] = From
    /\ SingleOrigin(chain[4])

\* C10: with chain resolution and only-in-from-chain on, for a chain that
\* begins From, B, From, C in the first sentence, the first relation yielded
\* is B -> A for the context lexeme A and the second is C -> B, not C -> A.
C10_ChainUnpacking ==
    (chain_resolution /\ only_in_from_chain /\ FromBFromC) =>
        /\ Len(section_relations) >= 2
        /\ section_relations[1] =
               Relation(chain[2].link_target[1], ctx_lexeme, Plain(chain[2].type))
        /\ section_relations[2] =
               Relation(chain[4].link_target[1], chain[2].link_target[1],
                        Plain(chain[4].type))

\* From B, from C with two different etymons has been read
C10_Witness ==
    /\ chain_resolution
    /\ only_in_from_chain
    /\ FromBFromC
    /\ chain[2].link_target[1] = 2
    /\ chain[4].link_target[1] = 3

\* ------------------------------------------------------------------ C17
\* the recorded adds are two directed relations on one ordered pair of
\* nodes, of types neither of which is_a the other
TwoIncomparable ==
    /\ Len(added) = 2
    /\ added[1].src = added[2].src
    /\ added[1].tgt = added[2].tgt
    /\ added[1].src # added[1].tgt
    /\ directed(added[1].attrs.type)
    /\ directed(added[2].attrs.type)
    /\ ~is_a(added[1].attrs.type, added[2].attrs.type)
    /\ ~is_a(added[2].attrs.type, added[1].attrs.type)

AttrsAt(g, p) == {g[p][i].attrs : i \in 1..Len(g[p])}

\* C17: of two directed relations on one ordered pair with incomparable
\* types, the second add leaves the edge of the first in origin with its
\* type and attributes and records the second in the overflow store, and
\* the finalized graph holds exactly the two parallel edges, one per type,
\* each with the attributes it was added with.
C17_IncomparableBothKept ==
    TwoIncomparable =>
        LET p == <<added[1].src, added[1].tgt>>
        IN  /\ last.op = "add" =>
                  /\ origin[p] = <<added[1].attrs>>
                  /\ AttrsAt(origin_cycles_and_parallel_edges, p)
                         = {added[2].attrs}
            /\ last.op = "finalize" =>
                  /\ Cardinality(Entries(graph)) = 2
                  /\ Len(graph[p]) = 2
                  /\ AttrsAt(graph, p) = {added[1].attrs, added[2].attrs}

\* BORROWING with text and marked uncertain, then EPONYM, then finalize
C17_Witness ==
    /\ last.op = "finalize"
    /\ TwoIncomparable
    /\ added[1].attrs = RelationAttributes("BORROWING", <<"t">>, TRUE)
    /\ added[2].attrs.type = "EPONYM"

\* ------------------------------------------------------------------ C18
\* the recorded adds are two relations of one type that is RELATED or is_a
\* SIBLING, one as (A, B) and one as (B, A)
BothOrientations(A, B) ==
    /\ A # B
    /\ Len(added) = 2
    /\ {<<added[1].src, added[1].tgt>>, <<added[2].src, added[2].tgt>>}
           = {<<A, B>>, <<B, A>>}
    /\ added[1].attrs.type = added[2].attrs.type
    /\ \/ added[1].attrs.type = "RELATED"
       \/ is_a(added[1].attrs.type, "SIBLING")

\* C18: after a relation of type RELATED or of a SIBLING type was added
\* as (A, B) and as (B, A), in either order, the store holds one edge
\* between A and B, and the graph finalized with whatever options holds
\* exactly one edge, of that type, between A and B.
C18_OrientationInsensitive ==
    \A A, B \in Node :
        BothOrientations(A, B) =>
            /\ last.op = "add" =>
                  Cardinality(Entries(related))
                      + Cardinality(Entries(sibling))
                      + Cardinality(Entries(origin)) = 1
            /\ last.op = "finalize" =>
                  /\ Cardinality(Entries(graph)) = 1
                  /\ \E p \in {<<A, B>>, <<B, A>>} :
                        TypedEdges(graph)
                            = {<<p[1], p[2], added[1].attrs.type>>}

\* COGNATE added as (2, 1) and then as (1, 2), then finalize
C18_Witness ==
    /\ last.op = "finalize"
    /\ BothOrientations(1, 2)
    /\ added[1].src = 2
    /\ added[1].attrs.type = "COGNATE"
    /\ Cardinality(Entries(graph)) = 1

\* ------------------------------------------------------------------ C19
\* C19: a finalize call that directly follows a finalize call that
\* returned, with whatever options either was called with, returns too and
\* leaves _graph, the object both calls return, with the same edges, keys
\* and edge attributes, and leaves the four stores empty.
C19_FinalizeTwice ==
    [][(last.op = "finalize" /\ last.result = "ok" /\ last'.op = "finalize")
          => /\ last'.result = "ok"
             /\ graph' = graph
             /\ related' = EmptyGraph /\ sibling' = EmptyGraph
             /\ origin' = EmptyGraph
             /\ origin_cycles_and_parallel_edges' = EmptyGraph]_vars

\* a second finalize, with all reductions, of a graph of three edges
C19_Witness ==
    /\ last.op = "finalize"
    /\ last.again
    /\ last.flags = <<TRUE, TRUE, TRUE>>
    /\ Cardinality(Entries(graph)) = 3

\* ------------------------------------------------------------------ C20
\* the attributes of the parallel edges src -> tgt that origin and the
\* overflow store hold, origin's first
ParallelEdges(p) ==
    origin[p] \o [i \in 1..Len(origin_cycles_and_parallel_edges[p]) |->
                     origin_cycles_and_parallel_edges[p][i].attrs]

\* C20: in every state reached by add calls, no two of the parallel edges
\* src -> tgt that origin and origin_cycles_and_parallel_edges hold
\* together have types one of which is_a the other.
C20_NoComparableParallel ==
    \A p \in Pairs :
        \A i, j \in 1..Len(ParallelEdges(p)) :
            i # j => /\ ~is_a(ParallelEdges(p)[i].type, ParallelEdges(p)[j].type)
                     /\ ~is_a(ParallelEdges(p)[j].type, ParallelEdges(p)[i].type)

\* ------------------------------------------------------------------ C11
\* the chain of the section `From {{inh|en|enm|cat}}.`: the etymon
\* (cat, enm, 0) is lexeme 2, the entry lexeme (cat, en, 0) is ctx_lexeme
FromInhCat == <<From, LinkNormalization(<<2>>, "INHERITANCE"), Punct>>

\* C11: for the section `From {{inh|en|enm|cat}}.` exactly one relation is
\* emitted, of type INHERITANCE, with the entry lexeme as source and the
\* etymon as target; and every relation extracted from an etymology
\* section whose chain is not unpacked has the context lexeme as source
\* and the referenced etymon as target.
C11_ContextLexemeIsSource ==
    /\ chain = FromInhCat =>
           section_relations
               = <<Relation(ctx_lexeme, 2, Plain("INHERITANCE"))>>
    /\ ~chain_resolution =>
           \A i \in 1..Len(section_relations) :
               /\ section_relations[i].src = ctx_lexeme
               /\ section_relations[i].tgt # ctx_lexeme

\* ------------------------------------------------------------------ C12
\* From ''[[black]]'' + ''[[bird]]''. as MentionRule leaves it: black is
\* lexeme 2 and bird is lexeme 3
FromBlackPlusBird == <<From, Mention(2), Plus, Mention(3), Punct>>

Normalizations(s) == {i \in 1..Len(s) : IsLinkNormalization(s[i])}

\* C12: for From ''[[black]]'' + ''[[bird]]''. the rules end with exactly
\* one normalization, of type MORPHOLOGICAL, whose target tuple holds both
\* mentions, black and bird.
C12_CompoundOfBoth ==
    (given = FromBlackPlusBird /\ applied = Len(default_rules)) =>
        /\ Cardinality(Normalizations(ret)) = 1
        /\ \A i \in Normalizations(ret) :
               ret[i] = LinkNormalization(<<2, 3>>, "MORPHOLOGICAL")

\* ------------------------------------------------------------------ C13
\* C13: when an identify call that merged its candidate into a stored
\* entity is followed by an identify call with the same name and the same
\* template data that merges into the same entity, the second merge leaves
\* every attribute of that entity, the occupation string included, as the
\* first merge left it.
C13_MergeIdempotent ==
    [][(/\ identified.merged
        /\ identified'.merged
        /\ identified'.calls = identified.calls + 1
        /\ identified'.name = identified.name
        /\ identified'.template_data = identified.template_data
        /\ identified'.returned = identified.returned)
          => entities'[identified.name][identified.returned]
                 = entities[identified.name][identified.returned]]_vars

\* ------------------------------------------------------------------ C14
\* the entity identify builds from its arguments
Candidate(name, template_data) ==
    IF template_data # NoData THEN from_template_data(template_data)
    ELSE Entity(name, <<>>, None, None, None, None)

\* for each of wplink, born, died and nat one side is empty or both values
\* are equal
Compatible(c, e) ==
    \A attr \in MergeAttrs :
        c[attr] = None \/ e[attr] = None \/ c[attr] = e[attr]

\* c with its missing fields filled from e
Filled(new, c, e) ==
    /\ new.name = c.name
    /\ \A attr \in MergeAttrs :
           new[attr] = IF c[attr] # None THEN c[attr] ELSE e[attr]
    /\ c.occ = <<>> => new.occ = e.occ

\* C14: identify(name, data) returns a stored entity of that name if and
\* only if the candidate is compatible with one; it then returns the first
\* compatible entity in bucket order, with its missing fields filled from
\* the candidate, and leaves every other entity as it was. If none is
\* compatible, it appends the candidate to the bucket, returns it and
\* leaves every stored entity unchanged.
C14_IdentifyFirstCompatible ==
    [][identified'.calls = identified.calls + 1 =>
        LET name == identified'.name
            e == Candidate(name, identified'.template_data)
            bucket == entities[name]
            compatible == {k \in 1..Len(bucket) : Compatible(bucket[k], e)}
            k == identified'.returned
        IN  /\ identified'.merged <=> compatible # {}
            /\ \A other \in Names \ {name} :
                   entities'[other] = entities[other]
            /\ identified'.merged =>
                  /\ k \in compatible
                  /\ \A j \in compatible : k <= j
                  /\ Len(entities'[name]) = Len(bucket)
                  /\ Filled(entities'[name][k], bucket[k], e)
                  /\ \A j \in 1..Len(bucket) :
                         j # k => entities'[name][j] = bucket[j]
            /\ ~identified'.merged =>
                  /\ k = Len(bucket) + 1
                  /\ entities'[name] = Append(bucket, e)]_vars

\* the second entity of a bucket of two was returned, with a year of birth
\* it did not have before and a link it had
C14_Witness ==
    /\ identified.merged
    /\ identified.returned = 2
    /\ Len(entities[identified.name]) = 2
    /\ identified.template_data.born = 1888
    /\ identified.template_data.wplink = None
    /\ entities[identified.name][1].born = 2001
    /\ entities[identified.name][2].born = 1888
    /\ entities[identified.name][2].wplink = 1

\* ------------------------------------------------------------------ C15
\* the stores that hold the pair (term, language)
StoresOf(term, lang) ==
    {s \in {"single_meanings", "multi_meanings", "no_entries"} :
        \/ /\ s = "single_meanings"
           /\ \E i \in 1..Len(single_meanings[term]) :
                  single_meanings[term][i] = lang
        \/ /\ s = "multi_meanings"
           /\ multi_meanings[term].present
           /\ multi_meanings[term].by_language[lang] # Missing
        \/ /\ s = "no_entries"
           /\ \E i \in 1..Len(no_entries[term]) : no_entries[term][i] = lang}

\* C15: after the lexicon is built from the index and after any sequence
\* of add_from_entry, add_no_entry and _identify_lexeme calls, no (term,
\* language) pair is stored in more than one of single_meanings,
\* multi_meanings and no_entries.
C15_ExactlyOneStore ==
    \A term \in Terms, lang \in Languages :
        Cardinality(StoresOf(term, lang)) <= 1

\* ------------------------------------------------------------------ C16
\* C16: add_from_entry for an entry with more than one etymology, of a
\* (term, language) the index did not register with more than one
\* etymology, fails with KeyError and leaves the three stores unchanged.
C16_UnknownSlotRejected ==
    [][(/\ lexicon_call'.calls = lexicon_call.calls + 1
        /\ lexicon_call'.op = "add_from_entry"
        /\ lexicon_call'.etym_count > 1
        /\ ~(index[<<lexicon_call'.term, lexicon_call'.language>>] > 1))
          => /\ lexicon_call'.result = "KeyError"
             /\ UNCHANGED <<single_meanings, multi_meanings, no_entries>>]_vars


C22_RelatedAloneOnItsPair ==
    \A p \in Edges(related) :
        /\ origin[p] = <<>> /\ origin[<<p[2], p[1]>>] = <<>>
        /\ sibling[p] = <<>> /\ sibling[<<p[2], p[1]>>] = <<>>

\* adds have left edges in related, in origin and in sibling at once
C22_Witness ==
    /\ last.op = "add" /\ last.result = "ok"
    /\ Edges(related) # {}
    /\ Edges(origin) # {}
    /\ Edges(sibling) # {}

\* C23: whatever was added, with or without a language tree, origin never
\* holds an edge together with its reverse and never holds a self-loop.
C23_NoTwoCycleNoSelfLoop ==
    \A p \in Edges(origin) :
        p[1] # p[2] /\ origin[<<p[2], p[1]>>] = <<>>

\* under a language tree the reverse of an origin edge was added, and
\* before it a self-loop
C23_Witness ==
    /\ language_tree # NoTree
    /\ last.op = "add" /\ last.result = "ok"
    /\ Len(added) = 3
    /\ added[1].src = added[1].tgt
    /\ directed(added[3].attrs.type)
    /\ origin[<<added[3].tgt, added[3].src>>] # <<>>
    /\ origin_cycles_and_parallel_edges[<<added[3].src, added[3].tgt>>] # <<>>


\* C24: in the graph finalize returns, the key of every edge is the type
\* its attributes hold, also after upgrade merges into overflow edges.
C24_KeyIsType ==
    (last.op = "finalize" /\ last.result = "ok") =>
        \A p \in Pairs : \A i \in 1..Len(graph[p]) :
            graph[p][i].key = graph[p][i].attrs.type

\* a finalized graph with an edge whose key is not the type of its attributes
C24_Counterexample ==
    ~(/\ last.op = "finalize" /\ last.result = "ok"
      /\ \E p \in Pairs : \E i \in 1..Len(graph[p]) :
            graph[p][i].key # graph[p][i].attrs.type)


\* a From stands in the chain after the last sentence end
FromSeenInSentence ==
    \E i \in 1..Len(chain) :
        chain[i].kind = "From" /\ \A j \in (i + 1)..Len(chain) : chain[j] # Punct

\* C25: with only_in_from_chain on, the from-chain flag set by a From is
\* reset only by a sentence-ending '.', so every normalization read after a
\* From of the sentence, while last_origin_source is present and the
\* first-sentence flag is on, is related to last_origin_source and not to
\* the context lexeme.
C25_FromChainUntilSentenceEnd ==
    [][(only_in_from_chain /\ chain_resolution /\ Len(chain') = Len(chain) + 1) =>
          /\ (from_chain_check /\ ~from_chain_check') =>
                chain'[Len(chain')] = Punct
          /\ (/\ FromSeenInSentence
              /\ last_origin_source # None
              /\ first_sentence_check
              /\ chain'[Len(chain')].kind = "LinkNormalization") =>
                \A i \in (Len(section_relations) + 1)..Len(section_relations') :
                    section_relations'[i].tgt = last_origin_source]_vars

\* "from A, B": the normalization after the first origin of the from-chain
\* is related to the context lexeme
C25_Counterexample ==
    ~(/\ only_in_from_chain /\ chain_resolution /\ only_first_sentence
      /\ chain = <<From, LinkNormalization(<<2>>, "INHERITANCE"),
                   LinkNormalization(<<3>>, "INHERITANCE")>>
      /\ section_relations =
            <<Relation(2, ctx_lexeme, Plain("INHERITANCE")),
              Relation(3, ctx_lexeme, Plain("INHERITANCE"))>>)


\* C26: after the rules of default_rules have run, no Mention is left in
\* the sequence, whatever its position, the last included.
C26_NoMentionLeft ==
    applied = Len(default_rules) =>
        \A i \in 1..Len(ret) : ret[i].kind # "Mention"

\* a word and a mention: the mention in last position is what it was
C26_Counterexample ==
    ~(/\ given = <<Word, Mention(2)>>
      /\ applied = Len(default_rules)
      /\ ret = <<Word, Mention(2)>>)


\* the positions of s that hold the word 'abbreviation', and a mention
AbbreviationsIn(s) == {i \in 1..Len(s) : s[i] = Abbreviation}
MentionsIn(s) == {i \in 1..Len(s) : s[i].kind = "Mention"}

\* C27: when the word 'abbreviation' is followed within at most three
\* elements by a mention, with no Plus between them (here: one such word,
\* one mention, no XYOf), the rules end with a normalization of type ABBREV
\* whose target is the mention, and neither the relation marker nor the
\* mention is left in the sequence.
C27_RelationMarkerRewritten ==
    (/\ applied = Len(default_rules)
     /\ Cardinality(AbbreviationsIn(given)) = 1
     /\ Cardinality(MentionsIn(given)) = 1
     /\ \A i \in 1..Len(given) : given[i] # XYOf
     /\ \E k \in AbbreviationsIn(given) : \E m \in MentionsIn(given) :
           /\ k < m /\ m <= k + RelationRule_ctx
           /\ \A i \in (k + 1)..(m - 1) : given[i] # Plus) =>
        /\ \E i \in 1..Len(ret) : \E m \in MentionsIn(given) :
               /\ IsLinkNormalization(ret[i])
               /\ ret[i].type = "ABBREV"
               /\ ret[i].link_target = given[m].link_target
        /\ \A i \in 1..Len(ret) :
               ret[i].kind \notin {"Mention", "Relation", abbreviation_name}

\* 'abbreviation', a mention and a word: the marker stays and the mention
\* ends as a RELATED normalization
C27_Counterexample ==
    ~(/\ given = <<Abbreviation, Mention(2), Word>>
      /\ applied = Len(default_rules)
      /\ ret = <<Element(abbreviation_name, <<>>, FALSE, "abbreviation"),
                 LinkNormalization(<<2>>, "RELATED"), Word>>)


\* C30: the relations extract makes of a normalization whose relation
\* holds uncertain = true have uncertain = true in their attributes.
C30_UncertainCarried ==
    [][(/\ Len(chain') = Len(chain) + 1
        /\ chain'[Len(chain')].kind = "LinkNormalization"
        /\ chain'[Len(chain')].uncertain) =>
          \A i \in (Len(section_relations) + 1)..Len(section_relations') :
              section_relations'[i].attrs.uncertain = TRUE]_vars

\* the relation made of the uncertain normalization is not uncertain
C30_Counterexample ==
    ~(/\ chain = <<UncertainNormalization>>
      /\ section_relations =
            <<Relation(2, ctx_lexeme,
                       RelationAttributes("INHERITANCE", <<>>, FALSE))>>)


\* C28: a reference with template data to a (term, language) of two
\* homonyms, without anchor, is resolved to one of the homonyms, also when
\* the id of the template data matches no etymid and no gloss id.
C28_AlwaysAHomonym ==
    (resolved.called /\ Len(resolved.homonyms) >= 2) =>
        resolved.returned \in 1..Len(resolved.homonyms)

\* the id Q9 matches nothing and the call returns None
C28_Counterexample ==
    ~(/\ resolved.called
      /\ resolved.template_data = Reference("Q9", "noun", "a cat", "")
      /\ resolved.returned = 0)


\* C29: after an item of the list is read, the context its sublists get is
\* the target of the relation of the item when the item yields exactly one
\* relation, and the context of the enclosing list otherwise; it is never
\* the target of a relation of an earlier item.
C29_SubContextOfThisItem ==
    [][Len(descendants'.items) = Len(descendants.items) + 1 =>
          descendants'.sub_ctx =
              IF Len(descendants'.own) = 1 THEN descendants'.own[1].tgt
              ELSE ctx_lexeme]_vars

\* an item of one relation to 2, then an item whose template yields no
\* relation and that has a sublist: the sublist is read in the context 2
C29_Counterexample ==
    ~(/\ Len(descendants.items) = 2
      /\ descendants.items[1].templates =
            <<LinkNormalization(<<2>>, "INHERITANCE")>>
      /\ descendants.items[1].sublists = <<>>
      /\ descendants.items[2].templates =
            <<LinkNormalization(<<None>>, "INHERITANCE")>>
      /\ descendants.items[2].sublists # <<>>
      /\ descendants.own = <<>>
      /\ descendants.sub_ctx = 2
      /\ descendants.relations =
            <<Relation(ctx_lexeme, 2, Plain("INHERITANCE")),
              Relation(2, Phantom, Plain("INHERITANCE"))>>)

====
